---------------------------- MODULE Spec2Model ----------------------------
(***************************************************************************)
(* A model of NabBot's loot scanner (src/cogs/loot.py): the `loot` command *)
(* with its per-user admission guard, the per-image scan loop loot_scan,   *)
(* and the pixel routines it calls (crop_item, number_scan,                *)
(* clear_background, get_item_size, get_item_color, scan_item,             *)
(* find_slots).                                                            *)
(*                                                                         *)
(* Images are records [w, h, px]: px is the row-major sequence of the      *)
(* pixels, each pixel a tuple <<R, G, B, A>>.  Python's None is the record *)
(* None, and an IndexError raised by PIL's getpixel is the record          *)
(* IndexError.                                                             *)
(***************************************************************************)
EXTENDS Integers, Sequences, FiniteSets, TLC

VARIABLES
    \* a pixel routine under test: its argument, its result, its position
    fn_arg, fn_ret, fn_pc,
    \* the Loot cog: self.processing_users, and every invocation of the
    \* `loot` command with its author and its position in the coroutine
    processing_users, calls,
    \* the Items table of lootDatabase
    lootDatabase,
    \* one run of loot_scan: its input, its position, and what it returned
    \* or raised
    scan_arg, scan_pc, scan_ret,
    \* the locals of loot_scan, one field each: slot_list, i, quality, result,
    \* qz_item, found_item_number, groups, loot_list, unknown_items, lq_items,
    \* quality_warning, last_percent, and loot_image (the marks pasted on it)
    locals,
    \* what loot_scan leaves outside: the status updates it sent and the
    \* files it saved under DEBUG_FOLDER
    status, debug_folder,
    \* records of the run: the number of statements executed on lootDatabase,
    \* the qualities scan_item was called with for the current slot, and
    \* how the retry loop of each slot ended
    queries, attempts, verdicts

fn_vars == <<fn_arg, fn_ret, fn_pc>>
cog_vars == <<processing_users, calls>>
scan_vars == <<lootDatabase, scan_arg, scan_pc, scan_ret, locals, status, debug_folder,
               queries, attempts, verdicts>>
vars == <<fn_vars, cog_vars, scan_vars>>

-----------------------------------------------------------------------------
(* Values *)

None == [none |-> TRUE]
IndexError == [error |-> "IndexError"]
NoValue == [unset |-> TRUE]

IsImage(v) == DOMAIN v = {"w", "h", "px"}

Abs(n) == IF n < 0 THEN -n ELSE n
Max2(a, b) == IF a >= b THEN a ELSE b
Min2(a, b) == IF a <= b THEN a ELSE b

\* Pixels used to build inputs.
Transparent == <<0, 0, 0, 0>>
White == <<255, 255, 255, 255>>
NumberMarker == <<255, 255, 0, 0>>
Red == <<200, 30, 30, 255>>

\* An empty dict
EmptyDict == [k \in {} |-> 0]

\* The cog with no invocation of `loot`, and loot_scan not running.
CogIdle ==
    /\ processing_users = <<>>
    /\ calls = <<>>

ScanIdle ==
    /\ lootDatabase = <<>>
    /\ scan_arg = NoValue /\ scan_pc = "idle" /\ scan_ret = NoValue
    /\ locals = NoValue
    /\ status = <<>> /\ debug_folder = <<>>
    /\ queries = 0 /\ attempts = <<>> /\ verdicts = <<>>

-----------------------------------------------------------------------------
(* PIL.Image access *)

\* Image.getpixel((x, y)): a negative coordinate counts once from the far
\* edge; anything still outside the image raises IndexError.
InImage(im, x, y) ==
    LET xx == IF x < 0 THEN im.w + x ELSE x
        yy == IF y < 0 THEN im.h + y ELSE y
    IN  xx >= 0 /\ xx < im.w /\ yy >= 0 /\ yy < im.h

getpixel(im, x, y) ==
    LET xx == IF x < 0 THEN im.w + x ELSE x
        yy == IF y < 0 THEN im.h + y ELSE y
    IN  im.px[yy * im.w + xx + 1]

\* Image.crop((left, upper, right, lower)): the part of the box outside
\* the image is filled with zeros.
crop(im, left, upper, right, lower) ==
    LET cw == right - left
        ch == lower - upper
    IN  [w |-> cw, h |-> ch,
         px |-> [k \in 1..(cw * ch) |->
                    LET x == left + ((k - 1) % cw)
                        y == upper + ((k - 1) \div cw)
                    IN  IF x >= 0 /\ x < im.w /\ y >= 0 /\ y < im.h
                        THEN im.px[y * im.w + x + 1]
                        ELSE <<0, 0, 0, 0>>]]

-----------------------------------------------------------------------------
(* Pixel predicates *)

is_transparent(pixel) ==
    IF Len(pixel) < 4 THEN FALSE ELSE pixel[4] = 0

is_number(pixel) ==
    is_transparent(pixel) /\ pixel[1] = 255 /\ pixel[2] = 255 /\ pixel[3] = 0

is_white(pixel) == pixel[1] = 255 /\ pixel[2] = 255 /\ pixel[3] = 255

is_background_color(pixel, quality) ==
    LET low == Max2(0, 22 - quality * 2)
        high == Min2(80, 60 + quality)
        color_diff == Min2(15, 8 + quality)
    IN  /\ pixel[1] >= low /\ pixel[2] >= low /\ pixel[3] >= low
        /\ pixel[1] <= high /\ pixel[2] <= high /\ pixel[3] <= high
        /\ Max2(Max2(Abs(pixel[1] - pixel[2]), Abs(pixel[1] - pixel[3])),
                Abs(pixel[2] - pixel[3])) < color_diff

is_empty(pixel) == is_white(pixel) \/ is_transparent(pixel) \/ is_number(pixel)

get_pixel_diff(pixel1, pixel2) ==
    Abs(pixel1[1] - pixel2[1]) + Abs(pixel1[2] - pixel2[2]) + Abs(pixel1[3] - pixel2[3])

-----------------------------------------------------------------------------
(* crop_item *)

\* The four scans of crop_item.  Each returns the offset it found, its
\* initial value when the loop ends without finding one, or Raised when
\* getpixel raises IndexError.  A scan stops at the first pixel that is not
\* empty and returns the row (or column) it is in, so the pixels a scan
\* visits within one row (or column) are looked at together.
Raised == 0 - 2

\* From (px, py) to the right, then down the rows.
RECURSIVE CropTop(_, _, _)
CropTop(im, px, py) ==
    IF ~(py < im.h) THEN 0
    ELSE IF ~InImage(im, px, py) THEN Raised
    ELSE IF \E x \in px..(im.w - 1) : ~is_empty(getpixel(im, x, py)) THEN py
    ELSE CropTop(im, 0, py + 1)

\* From (px, py) to the left as far as column 1 (the step to the row above
\* is taken when px - 1 = 0), then up the rows; px = 0 happens in an image
\* one pixel wide, where the scan walks off the left edge.
RECURSIVE CropBottom(_, _, _)
CropBottom(im, px, py) ==
    IF ~(py > 0) THEN -1
    ELSE IF ~InImage(im, px, py) THEN Raised
    ELSE IF px >= 1
         THEN IF \E x \in 1..px : ~is_empty(getpixel(im, x, py)) THEN py
              ELSE CropBottom(im, im.w - 1, py - 1)
    ELSE IF ~is_empty(getpixel(im, px, py)) THEN py
    ELSE CropBottom(im, px - 1, py)

\* From (px, py) down, then along the columns to the right.
RECURSIVE CropLeft(_, _, _)
CropLeft(im, px, py) ==
    IF ~(px < im.w) THEN 0
    ELSE IF ~InImage(im, px, py) THEN Raised
    ELSE IF \E y \in py..(im.h - 1) : ~is_empty(getpixel(im, px, y)) THEN px
    ELSE CropLeft(im, px + 1, 0)

\* From (px, py) up as far as row 1, then along the columns to the left;
\* py = 0 happens in an image one pixel high.
RECURSIVE CropRight(_, _, _)
CropRight(im, px, py) ==
    IF ~(px > 0) THEN -1
    ELSE IF ~InImage(im, px, py) THEN Raised
    ELSE IF py >= 1
         THEN IF \E y \in 1..py : ~is_empty(getpixel(im, px, y)) THEN px
              ELSE CropRight(im, px - 1, im.h - 1)
    ELSE IF ~is_empty(getpixel(im, px, py)) THEN px
    ELSE CropRight(im, px, py - 1)

crop_item(item_image) ==
    IF item_image = None THEN None
    ELSE LET offset_top == CropTop(item_image, 0, 0)
             offset_bottom == CropBottom(item_image, item_image.w - 1, item_image.h - 1)
             offset_left == CropLeft(item_image, 0, 0)
             offset_right == CropRight(item_image, item_image.w - 1, item_image.h - 1)
         IN  IF offset_top = Raised \/ offset_bottom = Raised
                \/ offset_left = Raised \/ offset_right = Raised
             THEN IndexError
             ELSE IF offset_right = -1 \/ offset_bottom = -1 THEN None
             ELSE crop(item_image, offset_left, offset_top, offset_right + 1, offset_bottom + 1)

-----------------------------------------------------------------------------
(* get_item_size *)

\* The left-to-right sweep: the loop's state is (px, py, empty, size).
RECURSIVE SizeSweepLeft(_, _, _, _, _)
SizeSweepLeft(item, px, py, empty, size) ==
    IF ~(py < item.h) THEN size
    ELSE IF ~is_empty(getpixel(item, px, py))
         THEN SizeSweepLeft(item, 0, py + 1, 0, size - empty)
    ELSE IF px + 1 = item.w
         THEN SizeSweepLeft(item, 0, py + 1, 0, size - ((empty + 1) - 1))
    ELSE SizeSweepLeft(item, px + 1, py, empty + 1, size)

\* A row-end slip: the right-to-left sweep subtracting an all-empty row too.
RECURSIVE SizeSweepRightSubtractsEmptyRow(_, _, _, _, _)
SizeSweepRightSubtractsEmptyRow(item, px, py, empty, size) ==
    IF ~(py < item.h) THEN size
    ELSE IF ~is_empty(getpixel(item, px, py))
         THEN SizeSweepRightSubtractsEmptyRow(item, item.w - 1, py + 1, 0, size - empty)
    ELSE IF px - 1 = -1
         THEN SizeSweepRightSubtractsEmptyRow(item, item.w - 1, py + 1, 0, size - (empty + 1))
    ELSE SizeSweepRightSubtractsEmptyRow(item, px - 1, py, empty + 1, size)

\* The right-to-left sweep.
RECURSIVE SizeSweepRight(_, _, _, _, _)
SizeSweepRight(item, px, py, empty, size) ==
    IF ~(py < item.h) THEN size
    ELSE IF ~is_empty(getpixel(item, px, py))
         THEN SizeSweepRight(item, item.w - 1, py + 1, 0, size - empty)
    ELSE IF px - 1 = -1
         THEN SizeSweepRight(item, item.w - 1, py + 1, 0, size)
    ELSE SizeSweepRight(item, px - 1, py, empty + 1, size)

get_item_size(item) ==
    SizeSweepRight(item, item.w - 1, 0, 0,
                   SizeSweepLeft(item, 0, 0, 0, item.w * item.h))

-----------------------------------------------------------------------------
(* get_item_color *)

\* The sums of the channels of the counted pixels, and their count.
RECURSIVE ColorSum(_, _, _)
ColorSum(item, k, acc) ==
    IF k > item.w * item.h THEN acc
    ELSE LET item_pixel == item.px[k]
         IN  IF ~(is_empty(item_pixel) \/ is_background_color(item_pixel, 15))
             THEN ColorSum(item, k + 1,
                           <<acc[1] + item_pixel[1], acc[2] + item_pixel[2],
                             acc[3] + item_pixel[3], acc[4] + 1>>)
             ELSE ColorSum(item, k + 1, acc)

get_item_color(item) ==
    LET acc == ColorSum(item, 1, <<0, 0, 0, 0>>)
        count == acc[4]
    IN  IF count = 0 THEN <<0, 0, 0>>
        ELSE <<(acc[1] \div count) - (acc[2] \div count),
               (acc[1] \div count) - (acc[3] \div count),
               (acc[2] \div count) - (acc[3] \div count)>>

-----------------------------------------------------------------------------
(* scan_item *)

\* A stored frame is the pickled PNG encoding of an image; an Unknown
\* record's frame is the image itself.
EncodeFrame(image) == [png |-> image]
DecodeFrame(frame) == frame.png

Unknown == [verdict |-> "Unknown"]
Empty == [verdict |-> "Empty"]
AttributeError == [error |-> "AttributeError"]

IsItem(result) == "name" \in DOMAIN result

groups_get(groups, group) == IF group \in DOMAIN groups THEN groups[group] ELSE 0

\* The sort key with the score of the candidate's group left out, for
\* comparison with the key the code computes.
SortKeyWithoutGroups(k, groups) ==
    100 * Min2(Max2(k.value, 1000), 1) + k.priority

\* The sort key of scan_item, times 100 (the key divides by 100).
SortKey(k, groups) ==
    100 * Min2(Max2(k.value, 1000), 1) + (k.priority + groups_get(groups, k.group))

\* sorted(item_list, key=..., reverse=True): descending by key, equal keys
\* in their order in the list.
SortOrder(item_list, groups) ==
    LET n == Len(item_list)
        key(j) == SortKey(item_list[j], groups)
        rank(j) == 1 + Cardinality({m \in 1..n : key(m) > key(j) \/ (key(m) = key(j) /\ m < j)})
    IN  [r \in 1..n |-> CHOOSE j \in 1..n : rank(j) = r]

Sorted(item_list, groups) ==
    LET order == SortOrder(item_list, groups)
    IN  [r \in 1..Len(item_list) |-> item_list[order[r]]]

\* mismatch_threshold = item_size * (quality * 2)
mismatch_threshold(item_size, quality) == item_size * (quality * 2)

\* silhouette_threshold = item_size * (quality * 0.006), in thousandths (a
\* silhouette count s exceeds it exactly when s * 1000 exceeds this).
silhouette_threshold(item_size, quality) == item_size * (quality * 6)

\* What one pair of pixels adds to mismatch: the colour distance of two
\* filled pixels that differ by more than quality * 6.  First with the
\* comparison turned round (distances within the tolerance are the ones
\* counted), then as the code has it.
MismatchCostWithinTolerance(slot_item_pixel, item_pixel, quality) ==
    IF ~is_empty(item_pixel) /\ ~is_empty(slot_item_pixel)
       /\ get_pixel_diff(slot_item_pixel, item_pixel) <= quality * 6
    THEN get_pixel_diff(slot_item_pixel, item_pixel) ELSE 0

MismatchCost(slot_item_pixel, item_pixel, quality) ==
    IF ~is_empty(item_pixel) /\ ~is_empty(slot_item_pixel)
       /\ get_pixel_diff(slot_item_pixel, item_pixel) > quality * 6
    THEN get_pixel_diff(slot_item_pixel, item_pixel) ELSE 0

\* What one pair of pixels adds to silhouette.
SilhouetteCost(slot_item_pixel, item_pixel, quality) ==
    IF is_empty(item_pixel) = is_empty(slot_item_pixel) THEN 0
    ELSE IF is_empty(slot_item_pixel)
         THEN IF is_background_color(item_pixel, quality) THEN 0
              ELSE IF is_number(slot_item_pixel) THEN 0
              ELSE 1
    ELSE 1

\* The comparison loop of one candidate: TRUE when it runs to the last row
\* of either image (the candidate is returned), FALSE when it breaks.
RECURSIVE Compare(_, _, _, _, _, _, _, _, _)
Compare(slot_item, item_image, quality, mismatch_max, silhouette_max, px, py, mismatch, silhouette) ==
    IF ~(py < slot_item.h /\ py < item_image.h) THEN FALSE
    ELSE
    LET slot_item_pixel == getpixel(slot_item, px, py)
        item_pixel == getpixel(item_image, px, py)
        mismatch2 == mismatch + MismatchCost(slot_item_pixel, item_pixel, quality)
        silhouette2 == silhouette + SilhouetteCost(slot_item_pixel, item_pixel, quality)
        wrap == px + 1 = slot_item.w \/ px + 1 = item_image.w
        px2 == IF wrap THEN 0 ELSE px + 1
        py2 == IF wrap THEN py + 1 ELSE py
    IN  IF mismatch2 > mismatch_max \/ silhouette2 * 1000 > silhouette_max
        THEN FALSE
        ELSE IF py2 = slot_item.h \/ py2 = item_image.h THEN TRUE
        ELSE Compare(slot_item, item_image, quality, mismatch_max, silhouette_max,
                     px2, py2, mismatch2, silhouette2)

\* The image a candidate is compared as.
CandidateImage(item) ==
    IF item.name = "Unknown" THEN item.frame
    ELSE crop_item(DecodeFrame(item.frame))

\* The loop over the sorted candidates, from candidate k on.  A catalog
\* frame that crops to None raises AttributeError at item_image.size.
\* First without the bonus on the accepted catalog candidate, then as the
\* code has it.
RECURSIVE ScanFromNoBonus(_, _, _, _, _)
ScanFromNoBonus(slot_item, sorted, quality, item_size, k) ==
    IF k > Len(sorted) THEN Unknown
    ELSE LET item == sorted[k]
             item_image == CandidateImage(item)
         IN  IF item_image = None THEN AttributeError
             ELSE IF item_image = IndexError THEN IndexError
             ELSE IF Compare(slot_item, item_image, quality,
                             mismatch_threshold(item_size, quality),
                             silhouette_threshold(item_size, quality), 0, 0, 0, 0)
                  THEN item
             ELSE ScanFromNoBonus(slot_item, sorted, quality, item_size, k + 1)

RECURSIVE ScanFrom(_, _, _, _, _)
ScanFrom(slot_item, sorted, quality, item_size, k) ==
    IF k > Len(sorted) THEN Unknown
    ELSE LET item == sorted[k]
             item_image == CandidateImage(item)
         IN  IF item_image = None THEN AttributeError
             ELSE IF item_image = IndexError THEN IndexError
             ELSE IF Compare(slot_item, item_image, quality,
                             mismatch_threshold(item_size, quality),
                             silhouette_threshold(item_size, quality), 0, 0, 0, 0)
                  THEN IF item.name = "Unknown" THEN item
                       ELSE [item EXCEPT !.priority = @ + 400]
             ELSE ScanFrom(slot_item, sorted, quality, item_size, k + 1)

\* if quality < 5: quality = 5
ClampQuality(quality) == IF quality < 5 THEN 5 ELSE quality

scan_item(slot_item, item_list, groups, quality) ==
    IF slot_item = None THEN Empty
    ELSE ScanFrom(slot_item, Sorted(item_list, groups), ClampQuality(quality),
                  get_item_size(slot_item), 1)

\* Whether the comparison loop of scan_item runs to the end for a candidate.
Accepts(slot_item, item, quality) ==
    LET item_image == CandidateImage(item)
        item_size == get_item_size(slot_item)
    IN  /\ IsImage(item_image)
        /\ Compare(slot_item, item_image, ClampQuality(quality),
                   mismatch_threshold(item_size, ClampQuality(quality)),
                   silhouette_threshold(item_size, ClampQuality(quality)), 0, 0, 0, 0)

\* The candidates scan_item compares, in the order it compares them: the
\* sorted list up to the first candidate it accepts.
Compared(slot_item, item_list, groups, quality) ==
    LET sorted == Sorted(item_list, groups)
        hits == {k \in 1..Len(sorted) : Accepts(slot_item, sorted[k], quality)}
    IN  IF hits = {} THEN sorted
        ELSE SubSeq(sorted, 1, CHOOSE k \in hits : \A m \in hits : k <= m)

\* The place in item_list of the dict scan_item returns, 0 when it returns
\* "Unknown".
MatchedIndex(slot_item, item_list, groups, quality) ==
    LET order == SortOrder(item_list, groups)
        hits == {r \in 1..Len(item_list) : Accepts(slot_item, item_list[order[r]], quality)}
    IN  IF hits = {} THEN 0
        ELSE order[CHOOSE r \in hits : \A m \in hits : r <= m]

\* The caller's item_list after the call.  sorted() makes a new list of the
\* same dicts, so item['priority'] += 400 shows in the caller's list.  First
\* with the bonus given to every candidate compared, then as the code has
\* it.
ItemListAfterBonusToCompared(slot_item, item_list, groups, quality) ==
    LET order == SortOrder(item_list, groups)
        j == MatchedIndex(slot_item, item_list, groups, quality)
        last == IF j = 0 THEN Len(item_list)
                ELSE CHOOSE r \in 1..Len(item_list) : order[r] = j
    IN  [k \in 1..Len(item_list) |->
            IF (\E r \in 1..last : order[r] = k) /\ item_list[k].name # "Unknown"
            THEN [item_list[k] EXCEPT !.priority = @ + 400]
            ELSE item_list[k]]

ItemListAfter(slot_item, item_list, groups, quality) ==
    LET j == MatchedIndex(slot_item, item_list, groups, quality)
    IN  IF j = 0 THEN item_list
        ELSE IF item_list[j].name = "Unknown" THEN item_list
        ELSE [item_list EXCEPT ![j].priority = @ + 400]

-----------------------------------------------------------------------------
(* The Items table *)

\* The row item_new inserts for a frame.
NewRow(item, frame, group, value) ==
    LET frame_crop == crop_item(frame)
        frame_color == get_item_color(frame)
        frame_size == get_item_size(frame_crop)
    IN  [name |-> item, group |-> group, priority |-> 0, value |-> value,
         frame |-> EncodeFrame(frame),
         sizeX |-> frame_crop.w, sizeY |-> frame_crop.h, size |-> frame_size,
         red |-> frame_color[1], green |-> frame_color[2], blue |-> frame_color[3]]

\* item_new and item_add raise (and insert nothing) for a frame that does
\* not crop to an image.
Storable(frame) == IsImage(crop_item(frame))

-----------------------------------------------------------------------------
(* number_scan *)

\* The reference glyphs images/0.png .. images/9.png, 8 by 10 pixels each:
\* 0 is a transparent pixel, 1 the digit's ink, 2 its dark outline.
GlyphInk ==
  <<
    <<0, 2, 2, 2, 2, 2, 0, 0,
       2, 2, 1, 1, 1, 2, 2, 0,
       2, 1, 2, 2, 2, 1, 2, 0,
       2, 1, 2, 2, 1, 1, 2, 0,
       2, 1, 2, 1, 2, 1, 2, 0,
       2, 1, 1, 2, 2, 1, 2, 0,
       2, 1, 2, 2, 2, 1, 2, 0,
       2, 2, 1, 1, 1, 2, 2, 0,
       0, 2, 2, 2, 2, 2, 0, 0,
       0, 0, 0, 0, 0, 0, 0, 0>>,
    <<0, 0, 2, 2, 2, 0, 0, 0,
       0, 2, 2, 1, 2, 0, 0, 0,
       0, 2, 1, 1, 2, 0, 0, 0,
       0, 2, 2, 1, 2, 0, 0, 0,
       0, 0, 2, 1, 2, 0, 0, 0,
       0, 0, 2, 1, 2, 0, 0, 0,
       0, 2, 2, 1, 2, 2, 0, 0,
       0, 2, 1, 1, 1, 2, 0, 0,
       0, 2, 2, 2, 2, 2, 0, 0,
       0, 0, 0, 0, 0, 0, 0, 0>>,
    <<0, 2, 2, 2, 2, 2, 0, 0,
       2, 2, 1, 1, 1, 2, 2, 0,
       2, 1, 2, 2, 2, 1, 2, 0,
       2, 2, 2, 2, 2, 1, 2, 0,
       0, 0, 2, 2, 1, 2, 2, 0,
       0, 2, 2, 1, 2, 2, 0, 0,
       2, 2, 1, 2, 2, 2, 2, 0,
       2, 1, 1, 1, 1, 1, 2, 0,
       2, 2, 2, 2, 2, 2, 2, 0,
       0, 0, 0, 0, 0, 0, 0, 0>>,
    <<2, 2, 2, 2, 2, 2, 2, 0,
       2, 1, 1, 1, 1, 1, 2, 0,
       2, 2, 2, 2, 1, 2, 2, 0,
       0, 0, 2, 1, 2, 2, 0, 0,
       0, 0, 2, 2, 1, 2, 2, 0,
       2, 2, 2, 2, 2, 1, 2, 0,
       2, 1, 2, 2, 2, 1, 2, 0,
       2, 2, 1, 1, 1, 2, 2, 0,
       0, 2, 2, 2, 2, 2, 0, 0,
       0, 0, 0, 0, 0, 0, 0, 0>>,
    <<0, 0, 0, 2, 2, 2, 0, 0,
       0, 0, 2, 2, 1, 2, 0, 0,
       0, 2, 2, 1, 1, 2, 0, 0,
       2, 2, 1, 2, 1, 2, 0, 0,
       2, 1, 2, 2, 1, 2, 2, 0,
       2, 1, 1, 1, 1, 1, 2, 0,
       2, 2, 2, 2, 1, 2, 2, 0,
       0, 0, 0, 2, 1, 2, 0, 0,
       0, 0, 0, 2, 2, 2, 0, 0,
       0, 0, 0, 0, 0, 0, 0, 0>>,
    <<2, 2, 2, 2, 2, 2, 2, 0,
       2, 1, 1, 1, 1, 1, 2, 0,
       2, 1, 2, 2, 2, 2, 2, 0,
       2, 1, 1, 1, 1, 2, 2, 0,
       2, 2, 2, 2, 2, 1, 2, 0,
       2, 2, 2, 0, 2, 1, 2, 0,
       2, 1, 2, 2, 2, 1, 2, 0,
       2, 2, 1, 1, 1, 2, 2, 0,
       0, 2, 2, 2, 2, 2, 0, 0,
       0, 0, 0, 0, 0, 0, 0, 0>>,
    <<0, 0, 2, 2, 2, 2, 0, 0,
       0, 2, 2, 1, 1, 2, 0, 0,
       2, 2, 1, 2, 2, 2, 0, 0,
       2, 1, 2, 2, 2, 2, 0, 0,
       2, 1, 1, 1, 1, 2, 2, 0,
       2, 1, 2, 2, 2, 1, 2, 0,
       2, 1, 2, 2, 2, 1, 2, 0,
       2, 2, 1, 1, 1, 2, 2, 0,
       0, 2, 2, 2, 2, 2, 0, 0,
       0, 0, 0, 0, 0, 0, 0, 0>>,
    <<2, 2, 2, 2, 2, 2, 2, 0,
       2, 1, 1, 1, 1, 1, 2, 0,
       2, 2, 2, 2, 2, 1, 2, 0,
       0, 0, 2, 2, 1, 2, 2, 0,
       0, 2, 2, 1, 2, 2, 0, 0,
       0, 2, 1, 2, 2, 0, 0, 0,
       0, 2, 1, 2, 0, 0, 0, 0,
       0, 2, 1, 2, 0, 0, 0, 0,
       0, 2, 2, 2, 0, 0, 0, 0,
       0, 0, 0, 0, 0, 0, 0, 0>>,
    <<0, 2, 2, 2, 2, 2, 0, 0,
       2, 2, 1, 1, 1, 2, 2, 0,
       2, 1, 2, 2, 2, 1, 2, 0,
       2, 1, 2, 2, 2, 1, 2, 0,
       2, 2, 1, 1, 1, 2, 2, 0,
       2, 1, 2, 2, 2, 1, 2, 0,
       2, 1, 2, 2, 2, 1, 2, 0,
       2, 2, 1, 1, 1, 2, 2, 0,
       0, 2, 2, 2, 2, 2, 0, 0,
       0, 0, 0, 0, 0, 0, 0, 0>>,
    <<0, 2, 2, 2, 2, 2, 0, 0,
       2, 2, 1, 1, 1, 2, 2, 0,
       2, 1, 2, 2, 2, 1, 2, 0,
       2, 1, 2, 2, 2, 1, 2, 0,
       2, 2, 1, 1, 1, 1, 2, 0,
       0, 2, 2, 2, 2, 1, 2, 0,
       0, 2, 2, 2, 1, 2, 2, 0,
       0, 2, 1, 1, 2, 2, 0, 0,
       0, 2, 2, 2, 2, 0, 0, 0,
       0, 0, 0, 0, 0, 0, 0, 0>>
  >>

GlyphPixel(code) ==
    IF code = 1 THEN <<191, 191, 191, 255>>
    ELSE IF code = 2 THEN <<0, 0, 0, 255>>
    ELSE <<0, 0, 0, 0>>

\* numbers[i + 1] is the glyph of digit i.
numbers ==
    [i \in 1..10 |-> [w |-> 8, h |-> 10, px |-> [k \in 1..80 |-> GlyphPixel(GlyphInk[i][k])]]]

\* The three digit cells, their left column moved one pixel to the left.
DigitCellsShifted(slot_image) ==
    <<crop(slot_image, 7, 21, 7 + 8, 21 + 10),
      crop(slot_image, 15, 21, 15 + 8, 21 + 10),
      crop(slot_image, 23, 21, 23 + 8, 21 + 10)>>

\* digit_hundreds, digit_tens, digit_units
DigitCells(slot_image) ==
    <<crop(slot_image, 8, 21, 8 + 8, 21 + 10),
      crop(slot_image, 16, 21, 16 + 8, 21 + 10),
      crop(slot_image, 24, 21, 24 + 8, 21 + 10)>>

\* The inner while loop, a row at a time.  Within row py from column px
\* on: TRUE when it reaches the end of the row without a break.
RECURSIVE GlyphRowMatches(_, _, _, _)
GlyphRowMatches(item_number, number, px, py) ==
    LET item_number_pixel == getpixel(item_number, px, py)
        number_pixel == getpixel(number, px, py)
    IN  IF ~is_transparent(number_pixel)
           /\ get_pixel_diff(item_number_pixel, number_pixel) # 0
        THEN FALSE
        ELSE IF px + 1 = item_number.w \/ px + 1 = number.w THEN TRUE
        ELSE GlyphRowMatches(item_number, number, px + 1, py)

\* From row py on: TRUE when every ink pixel of the glyph equals the
\* cell's pixel down to the cell's last row.
RECURSIVE GlyphMatches(_, _, _)
GlyphMatches(item_number, number, py) ==
    IF ~(py < item_number.h /\ py < number.h) THEN FALSE
    ELSE IF ~GlyphRowMatches(item_number, number, 0, py) THEN FALSE
    ELSE IF py + 1 = item_number.h THEN TRUE
    ELSE GlyphMatches(item_number, number, py + 1)

\* The loop over the glyphs: the first digit from i on that matches the
\* cell, -1 when none does.
RECURSIVE ReadDigit(_, _)
ReadDigit(item_number, i) ==
    IF i > 9 THEN -1
    ELSE IF GlyphMatches(item_number, numbers[i + 1], 0) THEN i
    ELSE ReadDigit(item_number, i + 1)

IsDigit(d) == d >= 0

\* int(number_string)
RECURSIVE IntOf(_)
IntOf(number_string) ==
    IF number_string = <<>> THEN 0
    ELSE IntOf(SubSeq(number_string, 1, Len(number_string) - 1)) * 10
         + number_string[Len(number_string)]

number_scan(slot_image) ==
    LET item_numbers == DigitCells(slot_image)
        digits == [a \in 1..3 |-> ReadDigit(item_numbers[a], 0)]
        number_string == SelectSeq(digits, IsDigit)
        \* Image.new("RGBA", (24, 10), (255, 255, 255, 0)) with the matched
        \* glyphs pasted at (8 * a, 0)
        numbers_image ==
            [w |-> 24, h |-> 10,
             px |-> [k \in 1..240 |->
                        LET x == (k - 1) % 24
                            y == (k - 1) \div 24
                            d == digits[(x \div 8) + 1]
                        IN  IF d >= 0 THEN getpixel(numbers[d + 1], x % 8, y)
                            ELSE <<255, 255, 255, 0>>]]
        Marked(x, y) ==
            /\ x >= 8 /\ x < 8 + 24 /\ y >= 21 /\ y < 21 + 10
            /\ ~is_transparent(getpixel(numbers_image, x - 8, y - 21))
        marked_image ==
            [slot_image EXCEPT !.px =
                [k \in 1..Len(slot_image.px) |->
                    IF Marked((k - 1) % slot_image.w, (k - 1) \div slot_image.w)
                    THEN <<255, 255, 0, 0>> ELSE slot_image.px[k]]]
    IN  [number |-> IF number_string = <<>> THEN 1 ELSE IntOf(number_string),
         slot_image |-> marked_image,
         numbers_image |-> numbers_image]

-----------------------------------------------------------------------------
(* The slot templates *)

\* images/slotborder.png and images/slot.png, 34 by 34 pixels: a one-pixel
\* frame, dark along the top and left edges and light along the bottom and
\* right ones, around the 32 by 32 slot background.
BorderDark == <<55, 55, 55, 255>>
BorderLight == <<100, 100, 100, 255>>
SlotBackgroundA == <<40, 40, 40, 255>>
SlotBackgroundB == <<44, 44, 44, 255>>

SlotTemplatePixel(x, y) ==
    IF y = 0 \/ x = 0 THEN BorderDark
    ELSE IF y = 33 \/ x = 33 THEN BorderLight
    ELSE IF (x + y) % 2 = 0 THEN SlotBackgroundA
    ELSE SlotBackgroundB

\* slot_border[s]: the flattened pixels of slotborder.png
slot_border(s) == SlotTemplatePixel(s % 34, s \div 34)

\* slot: slot.png
slot == [w |-> 34, h |-> 34, px |-> [k \in 1..(34 * 34) |-> slot_border(k - 1)]]

\* Image.putpixel((x, y), value) and Image.paste of a w-by-h block of one
\* colour at (x, y).
putpixel(im, x, y, value) == [im EXCEPT !.px[y * im.w + x + 1] = value]

paste_block(im, x, y, w, h, value) ==
    [im EXCEPT !.px =
        [k \in 1..Len(im.px) |->
            LET kx == (k - 1) % im.w
                ky == (k - 1) \div im.w
            IN  IF kx >= x /\ kx < x + w /\ ky >= y /\ ky < y + h
                THEN value ELSE im.px[k]]]

-----------------------------------------------------------------------------
(* find_slots *)

\* The positions (xs, ys) of the 34 by 34 frame the inner loop compares, in
\* the order it reaches them; it passes over the others unchanged.
FramePositions ==
    [j \in 1..132 |->
        IF j <= 34 THEN <<j - 1, 0>>
        ELSE IF j <= 98 THEN <<(IF (j - 35) % 2 = 0 THEN 0 ELSE 33), 1 + ((j - 35) \div 2)>>
        ELSE <<j - 99, 33>>]

\* The inner while loop over frame positions j..last, diff and diffmax in
\* tenths (diffmax is 132 * 0.3): the diff it leaves, or Raised when diff
\* exceeds diffmax before one of them and the loop ends without a slot.
RECURSIVE TraceSegment(_, _, _, _, _, _, _)
TraceSegment(image_copy, x, y, j, last, diff, diffmax) ==
    IF ~(diff <= diffmax) THEN Raised
    ELSE LET xs == FramePositions[j][1]
             ys == FramePositions[j][2]
             diff2 == IF get_pixel_diff(getpixel(image_copy, x + xs, y + ys),
                                        slot_border(ys * 34 + xs)) # 0
                      THEN diff + 10 ELSE diff
         IN  IF j = last THEN diff2
             ELSE TraceSegment(image_copy, x, y, j + 1, last, diff2, diffmax)

\* The whole inner loop, a quarter of the frame at a time: TRUE when it
\* reaches ys == 34 and appends the slot.
TraceFrame(image_copy, x, y, diffmax) ==
    LET d1 == TraceSegment(image_copy, x, y, 1, 33, 0, diffmax)
        d2 == IF d1 = Raised THEN Raised ELSE TraceSegment(image_copy, x, y, 34, 66, d1, diffmax)
        d3 == IF d2 = Raised THEN Raised ELSE TraceSegment(image_copy, x, y, 67, 99, d2, diffmax)
        d4 == IF d3 = Raised THEN Raised ELSE TraceSegment(image_copy, x, y, 100, 132, d3, diffmax)
    IN  d4 # Raised

\* One pass of the for loop over loot_bytes.  st is the loop's state:
\* image_copy, slot_list, x, y, skip, and n, the number of passes made.
FindSlotsPass(loot_image, st) ==
    LET x1 == IF (st.x + 1) + 34 > st.image_copy.w THEN 0 ELSE st.x + 1
        y1 == IF (st.x + 1) + 34 > st.image_copy.w THEN st.y + 1 ELSE st.y
        n1 == st.n + 1
    IN  IF y1 + 34 > st.image_copy.h
        THEN [st EXCEPT !.x = x1, !.y = y1, !.n = n1, !.done = TRUE]
        ELSE IF st.skip
        THEN [st EXCEPT !.x = x1, !.y = y1, !.n = n1, !.skip = FALSE]
        ELSE
        LET skip1 == (x1 + 34 # st.image_copy.w)
            looks == get_pixel_diff(getpixel(st.image_copy, x1, y1), slot_border(0)) <= 5
            back == looks /\ x1 # 0
                    /\ get_pixel_diff(getpixel(st.image_copy, x1 - 1, y1), slot_border(0)) <= 5
            x2 == IF back THEN x1 - 1 ELSE x1
            copy2 == IF back THEN putpixel(st.image_copy, x2 + 1, y1, <<255, 255, 255, 255>>)
                     ELSE st.image_copy
            diffmax == IF back THEN 396 + 10 ELSE 396
            found == looks /\ TraceFrame(copy2, x2, y1, diffmax)
        IN  IF found
            THEN [image_copy |-> paste_block(copy2, x2, y1, 34, 34, <<255, 255, 255, 255>>),
                  slot_list |-> Append(st.slot_list,
                                       [image |-> crop(loot_image, x2 + 1, y1 + 1, x2 + 33, y1 + 33),
                                        x |-> x2, y |-> y1]),
                  x |-> x2 + 33, y |-> y1, skip |-> skip1, n |-> n1, done |-> FALSE]
            ELSE [st EXCEPT !.image_copy = copy2, !.x = x2, !.y = y1, !.skip = skip1, !.n = n1]

\* The state find_slots enters its loop with; an image narrower or lower
\* than 34 returns at once.
FindSlotsStart(loot_image) ==
    [image_copy |-> loot_image, slot_list |-> <<>>, x |-> -1, y |-> 0, skip |-> FALSE,
     n |-> 0, done |-> (loot_image.w < 34 \/ loot_image.h < 34)]

\* The loop ends at its break or after one pass per byte of the image.
FindSlotsDone(st) == st.done \/ st.n >= Len(st.image_copy.px) * 4

-----------------------------------------------------------------------------
(* clear_background *)

\* The loop with a pixel farther than quality from the pixel of slot.png
\* behind it made opaque again, for comparison with the loop of the code.
clear_background_restoring(slot_item, quality) ==
    [slot_item EXCEPT !.px =
        [k \in 1..Len(slot_item.px) |->
            LET px == (k - 1) % slot_item.w
                py == (k - 1) \div slot_item.w
                slot_item_pixel == slot_item.px[k]
                slot_pixel == getpixel(slot, px + 1 + (32 - slot_item.w),
                                       py + 1 + (32 - slot_item.h))
            IN  IF get_pixel_diff(slot_item_pixel, slot_pixel) <= quality
                THEN <<slot_item_pixel[1], slot_item_pixel[2], slot_item_pixel[3], 0>>
                ELSE <<slot_item_pixel[1], slot_item_pixel[2], slot_item_pixel[3], 255>>]]

\* The loop visits every pixel of slot_item once and changes only the
\* pixel it visits: a pixel within quality of the pixel of slot.png behind
\* it gets alpha 0.
clear_background(slot_item, quality) ==
    [slot_item EXCEPT !.px =
        [k \in 1..Len(slot_item.px) |->
            LET px == (k - 1) % slot_item.w
                py == (k - 1) \div slot_item.w
                slot_item_pixel == slot_item.px[k]
                slot_pixel == getpixel(slot, px + 1 + (32 - slot_item.w),
                                       py + 1 + (32 - slot_item.h))
            IN  IF get_pixel_diff(slot_item_pixel, slot_pixel) <= quality
                THEN <<slot_item_pixel[1], slot_item_pixel[2], slot_item_pixel[3], 0>>
                ELSE slot_item_pixel]]

\* A call clear_background(slot_item, quality, copy=...): the image it
\* returns and the caller's image after it.  With copy the loop works on
\* slot_item.copy(), without it on the caller's image itself.
clear_background_call(slot_item, quality, copy) ==
    [returned |-> clear_background(slot_item, quality),
     slot_item |-> IF copy THEN slot_item ELSE clear_background(slot_item, quality)]

-----------------------------------------------------------------------------
(* loot_scan: the statements of its loop *)

LootScanException(message) == [error |-> "LootScanException", message |-> message]
OSError == [error |-> "OSError"]

IsError(v) == "error" \in DOMAIN v

\* x in list
In(x, list) == \E k \in 1..Len(list) : list[k] = x

\* SELECT * FROM Items WHERE ((ABS(sizeX - ?) <= 3 AND ABS(sizeY - ?) <= 3)
\* OR ABS(size - ?) <= 10) AND (ABS(red - ?)+ABS(green - ?)+ABS(blue - ?) <= ?)
SelectItems(table, found_item_crop, found_item_size, found_item_color, tolerance) ==
    LET Similar(row) ==
            /\ \/ /\ Abs(row.sizeX - found_item_crop.w) <= 3
                  /\ Abs(row.sizeY - found_item_crop.h) <= 3
               \/ Abs(row.size - found_item_size) <= 10
            /\ Abs(row.red - found_item_color[1]) + Abs(row.green - found_item_color[2])
                 + Abs(row.blue - found_item_color[3]) <= tolerance
    IN  SelectSeq(table, Similar)

\* The records of a session list whose box is within 3 of the sprite's.
SimilarBox(list, found_item_crop) ==
    LET Similar(item) ==
            /\ Abs(item.sizeX - found_item_crop.w) <= 3
            /\ Abs(item.sizeY - found_item_crop.h) <= 3
    IN  SelectSeq(list, Similar)

\* item_list as scan_item receives it: the rows of the query, then the
\* session's unknown items, then, at quality 0 only, its lq_items.  First
\* without the session's unknown items, then as the code has it.
ItemListWithoutUnknown(table, unknown_items, lq_items, found_item_crop, quality) ==
    SelectItems(table, found_item_crop, get_item_size(found_item_crop),
                get_item_color(found_item_crop), 60 + quality * 2)
    \o (IF quality = 0 THEN SimilarBox(lq_items, found_item_crop) ELSE <<>>)

\* item_list with lq_items appended at every quality, for comparison with
\* the list the code builds.
ItemListLqAlways(table, unknown_items, lq_items, found_item_crop, quality) ==
    SelectItems(table, found_item_crop, get_item_size(found_item_crop),
                get_item_color(found_item_crop), 60 + quality * 2)
    \o SimilarBox(unknown_items, found_item_crop)
    \o SimilarBox(lq_items, found_item_crop)

ItemList(table, unknown_items, lq_items, found_item_crop, quality) ==
    SelectItems(table, found_item_crop, get_item_size(found_item_crop),
                get_item_color(found_item_crop), 60 + quality * 2)
    \o SimilarBox(unknown_items, found_item_crop)
    \o (IF quality = 0 THEN SimilarBox(lq_items, found_item_crop) ELSE <<>>)

\* quality += max(2, int(quality / 2)), first with the halving left out,
\* then as the code has it.
NextQualityDoubling(quality) == quality + Max2(2, quality)

NextQuality(quality) == quality + Max2(2, quality \div 2)

\* scan_item adds 400 to the priority of the dict it returns; when that
\* dict is one of lq_items, the list holds the same dict.
AfterMatch(lq_items, result) ==
    IF IsItem(result) /\ "original" \in DOMAIN result
    THEN LET before == [result EXCEPT !.priority = @ - 400]
             first == CHOOSE k \in 1..Len(lq_items) :
                         /\ lq_items[k] = before
                         /\ \A m \in 1..(k - 1) : lq_items[m] # before
         IN  [lq_items EXCEPT ![first] = result]
    ELSE lq_items

\* lq_item: the matched row with its frame replaced by the slot's picture
\* cleared at quality 0.
LqItem(result, qz_item, qz_item_crop) ==
    [f \in DOMAIN result \cup {"original"} |->
        IF f = "original" THEN result.frame
        ELSE IF f = "frame" THEN EncodeFrame(qz_item)
        ELSE IF f = "sizeX" THEN qz_item_crop.w
        ELSE IF f = "sizeY" THEN qz_item_crop.h
        ELSE result[f]]

\* quality > 4 and result not in unknown_items and result not in lq_items
IsLowQualityAbove4(result, quality, unknown_items, lq_items) ==
    quality > 4 /\ ~In(result, unknown_items) /\ ~In(result, lq_items)

\* quality > 2 and result not in unknown_items and result not in lq_items
IsLowQuality(result, quality, unknown_items, lq_items) ==
    quality > 2 /\ ~In(result, unknown_items) /\ ~In(result, lq_items)

\* loot_list, a dict in insertion order, after counting found_item_number
\* more of result.  First counting one per slot whatever quantity was read,
\* then as the code has it.
TallyCountsSlots(loot_list, result, found_item_number) ==
    IF \E k \in 1..Len(loot_list) : loot_list[k].name = result.name
    THEN [k \in 1..Len(loot_list) |->
            IF loot_list[k].name = result.name
            THEN [loot_list[k] EXCEPT !.count = @ + 1]
            ELSE loot_list[k]]
    ELSE Append(loot_list, [name |-> result.name, count |-> 1,
                            group |-> result.group, value |-> result.value])

Tally(loot_list, result, found_item_number) ==
    IF \E k \in 1..Len(loot_list) : loot_list[k].name = result.name
    THEN [k \in 1..Len(loot_list) |->
            IF loot_list[k].name = result.name
            THEN [loot_list[k] EXCEPT !.count = @ + found_item_number]
            ELSE loot_list[k]]
    ELSE Append(loot_list, [name |-> result.name, count |-> found_item_number,
                            group |-> result.group, value |-> result.value])

\* groups[group] = groups.get(group, 0) + 1, for comparison with the
\* increment of the code.
GroupsAfterByOne(groups, group) ==
    [g \in DOMAIN groups \cup {group} |-> IF g = group THEN groups_get(groups, g) + 1
                                          ELSE groups[g]]

\* groups[group] = groups.get(group, 0) + 100
GroupsAfter(groups, group) ==
    [g \in DOMAIN groups \cup {group} |-> IF g = group THEN groups_get(groups, g) + 100
                                          ELSE groups[g]]

\* UPDATE Items SET priority = priority-4 WHERE name = ?, then
\* UPDATE Items SET priority = priority+1 WHERE group = ?
UpdatePriorityLowered(table, name, group) ==
    [k \in 1..Len(table) |->
        [table[k] EXCEPT !.priority = @ - (IF table[k].name = name THEN 4 ELSE 0)
                                        + (IF table[k].group = group THEN 1 ELSE 0)]]

\* UPDATE Items SET priority = priority+4 WHERE name = ?, then
\* UPDATE Items SET priority = priority+1 WHERE group = ?
UpdatePriority(table, name, group) ==
    [k \in 1..Len(table) |->
        [table[k] EXCEPT !.priority = @ + (IF table[k].name = name THEN 4 ELSE 0)
                                        + (IF table[k].group = group THEN 1 ELSE 0)]]

\* The group icon composited over the slot.
GroupIcon(result) ==
    IF result.value > 0 \/ result.group = "Unknown"
    THEN (IF result.group \in {"Green Djinn", "Blue Djinn", "Rashid", "Yasir", "Tamoril",
                               "Jewels", "Gnomission", "Other", "NoValue", "Unknown"}
          THEN result.group ELSE "Other")
    ELSE "NoValue"

\* int(i+1 / len(slot_list) * 100 / 10)
CurrentPercent(i, len) == i + (10 \div len)

\* if (current_percent-last_percent) >= 5
ReportDue(current_percent, last_percent) == current_percent - last_percent >= 5

-----------------------------------------------------------------------------
(* Loot.loot: the report on the tally loot_scan returns *)

\* unknown: False (no entry), or the first entry of the tally whose group is
\* "Unknown".
UnknownEntry(loot_list) ==
    LET unknowns == {k \in 1..Len(loot_list) : loot_list[k].group = "Unknown"}
    IN  IF unknowns = {} THEN <<>>
        ELSE <<loot_list[CHOOSE k \in unknowns : \A m \in unknowns : k <= m]>>

\* groups: the groups of the tally other than "Unknown", each once, in the
\* order of their first entry.
RECURSIVE ReportGroups(_, _, _)
ReportGroups(loot_list, k, groups) ==
    IF k > Len(loot_list) THEN groups
    ELSE IF ~In(loot_list[k].group, groups) /\ loot_list[k].group # "Unknown"
         THEN ReportGroups(loot_list, k + 1, Append(groups, loot_list[k].group))
    ELSE ReportGroups(loot_list, k + 1, groups)

\* group_value: count * value added for every entry of the group.
RECURSIVE GroupValue(_, _, _)
GroupValue(loot_list, group, k) ==
    IF k > Len(loot_list) THEN 0
    ELSE (IF loot_list[k].group = group /\ loot_list[k].group # "Unknown"
          THEN loot_list[k].count * loot_list[k].value ELSE 0)
         + GroupValue(loot_list, group, k + 1)

\* total_value after the loop over the groups.
RECURSIVE TotalValue(_, _, _)
TotalValue(loot_list, groups, g) ==
    IF g > Len(groups) THEN 0
    ELSE GroupValue(loot_list, groups[g], 1) + TotalValue(loot_list, groups, g + 1)

\* What the command sends for a tally: the apology for an empty one, else
\* the total value and, when there is an Unknown entry, its count.
Report(loot_list) ==
    IF Len(loot_list) = 0
    THEN [pc |-> "reported", reply |-> "I couldn't find any loot in that image."]
    ELSE [pc |-> "reported", reply |-> "I've finished parsing your image",
          total_value |-> TotalValue(loot_list, ReportGroups(loot_list, 1, <<>>), 1),
          unknown |-> [k \in 1..Len(UnknownEntry(loot_list)) |->
                          UnknownEntry(loot_list)[k].count]]

-----------------------------------------------------------------------------
(* Inputs of the pixel routines *)

HasNonEmpty(im) == \E k \in 1..Len(im.px) : ~is_empty(im.px[k])

\* Every image of at most maxw by maxh pixels over a palette.
Images(palette, maxw, maxh) ==
    UNION {UNION {{[w |-> w, h |-> h, px |-> p] : p \in [1..(w * h) -> palette]}
                  : h \in 1..maxh} : w \in 1..maxw}

-----------------------------------------------------------------------------
(* crop_item applied to a sprite, and again to its own result *)

CropPalette == {Transparent, White, Red}

\* Largest width and height of the sprites crop_item is applied to.
CropMaxW == 3
CropMaxH == 3

InitCrop ==
    /\ fn_arg \in Images(CropPalette, CropMaxW, CropMaxH)
    /\ fn_ret = NoValue
    /\ fn_pc = "start"
    /\ CogIdle /\ ScanIdle

CropOnce ==
    /\ fn_pc = "start"
    /\ fn_ret' = [first |-> crop_item(fn_arg)]
    /\ fn_pc' = "cropped"
    /\ UNCHANGED fn_arg
    /\ UNCHANGED <<cog_vars, scan_vars>>

\* crop_item(crop_item(x)); not reached when the first call raised.
CropAgain ==
    /\ fn_pc = "cropped"
    /\ fn_ret.first # IndexError
    /\ fn_ret' = [first |-> fn_ret.first, second |-> crop_item(fn_ret.first)]
    /\ fn_pc' = "recropped"
    /\ UNCHANGED fn_arg
    /\ UNCHANGED <<cog_vars, scan_vars>>

NextCrop == CropOnce \/ CropAgain

SpecCrop == InitCrop /\ [][NextCrop]_vars

\* C5: crop_item is idempotent: for a sprite with at least one non-empty
\* pixel, cropping the cropped sprite again returns the same image.
CropIdempotent ==
    (fn_pc = "recropped" /\ HasNonEmpty(fn_arg)) => fn_ret.second = fn_ret.first

\* The columns and the rows of the sprite that hold a non-empty pixel.
FilledColumns == {x \in 0..(fn_arg.w - 1) :
                     \E y \in 0..(fn_arg.h - 1) : ~is_empty(getpixel(fn_arg, x, y))}
FilledRows == {y \in 0..(fn_arg.h - 1) :
                  \E x \in 0..(fn_arg.w - 1) : ~is_empty(getpixel(fn_arg, x, y))}

\* C25: whenever crop_item returns an image, it is the sprite cut to the
\* minimal bounding box of its non-empty pixels: from the first to the last
\* column, and from the first to the last row, that holds a non-empty pixel.
MinimalBoxReturned ==
    (fn_pc = "cropped" /\ IsImage(fn_ret.first)) =>
        /\ FilledColumns # {}
        /\ LET left == CHOOSE x \in FilledColumns : \A c \in FilledColumns : x <= c
               right == CHOOSE x \in FilledColumns : \A c \in FilledColumns : x >= c
               top == CHOOSE y \in FilledRows : \A r \in FilledRows : y <= r
               bottom == CHOOSE y \in FilledRows : \A r \in FilledRows : y >= r
           IN  fn_ret.first = crop(fn_arg, left, top, right + 1, bottom + 1)

\* C29: crop_item never returns None for a sprite that holds a non-empty
\* pixel, wherever the pixel lies.
NonEmptySpriteNeverNone ==
    (fn_pc = "cropped" /\ HasNonEmpty(fn_arg)) => fn_ret.first # None

-----------------------------------------------------------------------------
(* get_item_size applied to a sprite *)

SizePalette == {Transparent, White, Red}

\* Largest width and height of the sprites get_item_size is applied to.
SizeMaxW == 2
SizeMaxH == 2

InitSize ==
    /\ fn_arg \in Images(SizePalette, SizeMaxW, SizeMaxH)
    /\ fn_ret = NoValue
    /\ fn_pc = "start"
    /\ CogIdle /\ ScanIdle

MeasureSize ==
    /\ fn_pc = "start"
    /\ fn_ret' = [size |-> get_item_size(fn_arg)]
    /\ fn_pc' = "measured"
    /\ UNCHANGED fn_arg
    /\ UNCHANGED <<cog_vars, scan_vars>>

NextSize == MeasureSize

SpecSize == InitSize /\ [][NextSize]_vars

FullyOpaque(im) == \A k \in 1..Len(im.px) : im.px[k][4] = 255

\* C9 as stated: get_item_size is never negative, and a fully opaque
\* w-by-h sprite measures exactly w*h.
SizeOfOpaqueIsArea ==
    fn_pc = "measured" =>
        /\ fn_ret.size >= 0
        /\ FullyOpaque(fn_arg) => fn_ret.size = fn_arg.w * fn_arg.h

\* C9 as amended: get_item_size is never negative, and a w-by-h sprite with
\* no empty pixel (none white, transparent or number marker) measures w*h.
SizeOfFilledIsArea ==
    fn_pc = "measured" =>
        /\ fn_ret.size >= 0
        /\ (\A k \in 1..Len(fn_arg.px) : ~is_empty(fn_arg.px[k]))
               => fn_ret.size = fn_arg.w * fn_arg.h

\* A measured sprite of more than one pixel, none of them empty.
SizeOfFilledWitness ==
    /\ fn_pc = "measured"
    /\ fn_arg.w * fn_arg.h > 1
    /\ \A k \in 1..Len(fn_arg.px) : ~is_empty(fn_arg.px[k])
    /\ fn_ret.size = fn_arg.w * fn_arg.h

-----------------------------------------------------------------------------
(* scan_item applied to one sprite and one candidate at rising quality *)

Red2 == <<200, 50, 50, 255>>
Gray66 == <<66, 66, 66, 255>>
Gray10 == <<10, 10, 10, 255>>

\* Largest number of pixels of the sprites compared exhaustively, number of
\* pixels of the wide sprites, and largest quality tried.
MatchMaxPixels == 3
MatchWide == 6
MatchMaxQuality == 29

MatchSizes == {wh \in (1..MatchMaxPixels) \X (1..MatchMaxPixels) : wh[1] * wh[2] <= MatchMaxPixels}

MatchImages(palette, wh) ==
    {[w |-> wh[1], h |-> wh[2], px |-> p] : p \in [1..(wh[1] * wh[2]) -> palette]}

\* A w-by-h image of one colour, but for pixel j (none when j = 0).
AllBut(wh, colour, j, other) ==
    [w |-> wh[1], h |-> wh[2],
     px |-> [k \in 1..(wh[1] * wh[2]) |-> IF k = j THEN other ELSE colour]]

\* The record loot_scan synthesizes for an unmatched sprite.
UnknownRecord(frame) ==
    [name |-> "Unknown", group |-> "Unknown", value |-> 0, priority |-> 10000000,
     frame |-> frame, sizeX |-> frame.w, sizeY |-> frame.h, size |-> get_item_size(frame)]

\* Every pair of a sprite and a frame of the same small size, and pairs of
\* wide sprites that differ from a solid one in at most one pixel each.
MatchPairs ==
    UNION {MatchImages({Transparent, Red}, wh) \X MatchImages({Transparent, Red2, Gray66, Gray10}, wh)
           : wh \in MatchSizes}
    \cup UNION {{<<AllBut(wh, Red, i, Transparent), AllBut(wh, Red2, j, c)>>
                  : i \in 0..MatchWide, j \in 0..MatchWide, c \in {Transparent, Gray66, Red}}
                : wh \in {<<MatchWide, 1>>, <<MatchWide \div 2, 2>>}}

InitMatch ==
    /\ \E pair \in MatchPairs, catalog \in BOOLEAN :
            /\ catalog => Storable(pair[2])
            /\ fn_arg = [slot_item |-> pair[1],
                         item |-> IF catalog THEN NewRow("Gold Coin", pair[2], "Other", 1)
                                  ELSE UnknownRecord(pair[2])]
    /\ fn_ret = [quality |-> -1, accepted |-> FALSE, accepted_below |-> FALSE]
    /\ fn_pc = "scan"
    /\ CogIdle /\ ScanIdle

\* scan_item at the next quality.
ScanAtQuality ==
    /\ fn_pc = "scan"
    /\ fn_ret.quality < MatchMaxQuality
    /\ LET quality == fn_ret.quality + 1
           result == scan_item(fn_arg.slot_item, <<fn_arg.item>>, <<>>, quality)
       IN  fn_ret' = [quality |-> quality,
                      accepted |-> IsItem(result),
                      accepted_below |-> fn_ret.accepted \/ fn_ret.accepted_below]
    /\ UNCHANGED <<fn_arg, fn_pc>>
    /\ UNCHANGED <<cog_vars, scan_vars>>

NextMatch == ScanAtQuality

SpecMatch == InitMatch /\ [][NextMatch]_vars

\* The thresholds scan_item uses for the sprite at a quality.
MismatchThresholdAt(quality) ==
    mismatch_threshold(get_item_size(fn_arg.slot_item), ClampQuality(quality))
SilhouetteThresholdAt(quality) ==
    silhouette_threshold(get_item_size(fn_arg.slot_item), ClampQuality(quality))

\* C8: for a fixed sprite and candidate the two thresholds do not decrease
\* as quality rises, and a candidate scan_item accepted at a lower quality
\* is accepted at every higher quality.
QualityMonotone ==
    fn_ret.quality >= 1 =>
        /\ MismatchThresholdAt(fn_ret.quality) >= MismatchThresholdAt(fn_ret.quality - 1)
        /\ SilhouetteThresholdAt(fn_ret.quality) >= SilhouetteThresholdAt(fn_ret.quality - 1)
        /\ fn_ret.accepted_below => fn_ret.accepted

\* A candidate with a silhouette mismatch (a pixel it lacks and the sprite
\* has) rejected at quality 5, accepted at a higher quality and scanned
\* again at a quality above that.
QualityMonotoneWitness ==
    /\ fn_ret.quality > 5
    /\ fn_ret.accepted_below
    /\ fn_ret.accepted
    /\ ~IsItem(scan_item(fn_arg.slot_item, <<fn_arg.item>>, <<>>, 5))
    /\ fn_arg.item.name = "Unknown"
    /\ \E k \in 1..Len(fn_arg.slot_item.px) :
          /\ ~is_empty(fn_arg.slot_item.px[k])
          /\ is_empty(fn_arg.item.frame.px[k])

-----------------------------------------------------------------------------
(* number_scan applied to a slot with a quantity drawn on it *)

SlotGray == <<43, 43, 43, 255>>

\* A 32 by 32 slot of one colour.
PlainSlot(colour) == [w |-> 32, h |-> 32, px |-> [k \in 1..(32 * 32) |-> colour]]

\* The slot with the glyph of digit d drawn over cell a (0, 1, 2: hundreds,
\* tens, units); d = -1 draws nothing.
DrawDigit(slot_image, a, d) ==
    IF d < 0 THEN slot_image
    ELSE [slot_image EXCEPT !.px =
            [k \in 1..Len(slot_image.px) |->
                LET x == ((k - 1) % slot_image.w) - (8 + 8 * a)
                    y == ((k - 1) \div slot_image.w) - 21
                IN  IF x >= 0 /\ x < 8 /\ y >= 0 /\ y < 10
                       /\ ~is_transparent(getpixel(numbers[d + 1], x, y))
                    THEN getpixel(numbers[d + 1], x, y)
                    ELSE slot_image.px[k]]]

\* The quantity n (1..999) drawn right-aligned; n = 0 draws no digit.
DrawNumber(slot_image, n) ==
    DrawDigit(DrawDigit(DrawDigit(slot_image,
        0, IF n >= 100 THEN n \div 100 ELSE -1),
        1, IF n >= 10 THEN (n \div 10) % 10 ELSE -1),
        2, IF n >= 1 THEN n % 10 ELSE -1)

InitDigits ==
    /\ \E n \in 0..999, colour \in {SlotGray, Red} :
            fn_arg = [n |-> n, slot_image |-> DrawNumber(PlainSlot(colour), n)]
    /\ fn_ret = NoValue
    /\ fn_pc = "start"
    /\ CogIdle /\ ScanIdle

ReadNumber ==
    /\ fn_pc = "start"
    /\ fn_ret' = number_scan(fn_arg.slot_image)
    /\ fn_pc' = "read"
    /\ UNCHANGED fn_arg
    /\ UNCHANGED <<cog_vars, scan_vars>>

NextDigits == ReadNumber

SpecDigits == InitDigits /\ [][NextDigits]_vars

\* C7: number_scan reads back every quantity 1..999 drawn with the
\* reference glyphs, and reads 1 from a slot with no digit drawn.
DigitRoundTrip ==
    fn_pc = "read" => fn_ret.number = (IF fn_arg.n = 0 THEN 1 ELSE fn_arg.n)

\* A three-digit quantity with a zero in it, read back.
DigitRoundTripWitness ==
    /\ fn_pc = "read"
    /\ fn_arg.n = 907
    /\ fn_ret.number = 907
    /\ \E k \in 1..Len(fn_ret.slot_image.px) : is_number(fn_ret.slot_image.px[k])

-----------------------------------------------------------------------------
(* find_slots applied to a screenshot with well-formed slots *)

\* Largest number of pixels the screenshot is wider or higher than the
\* slots drawn in it.
SlotsMaxMargin == 2

ShotGray == <<70, 70, 70, 255>>

\* A w-by-h screenshot of one colour with a slot (the frame of slot.png
\* around a red sprite pixel on the slot background) at each position.
Screenshot(w, h, colour, at) ==
    [w |-> w, h |-> h,
     px |-> [k \in 1..(w * h) |->
                LET x == (k - 1) % w
                    y == (k - 1) \div w
                IN  IF \E p \in at : x >= p[1] /\ x < p[1] + 34 /\ y >= p[2] /\ y < p[2] + 34
                    THEN LET p == CHOOSE p \in at :
                                     x >= p[1] /\ x < p[1] + 34 /\ y >= p[2] /\ y < p[2] + 34
                         IN  IF x - p[1] = 10 /\ y - p[2] = 10 THEN Red
                             ELSE SlotTemplatePixel(x - p[1], y - p[2])
                    ELSE colour]]

\* One slot, or two side by side, anywhere in a screenshot at most
\* SlotsMaxMargin pixels larger than them.
SlotLayouts ==
    {<<w, h, {<<x, y>>}>> :
        w \in 34..(34 + SlotsMaxMargin), h \in 34..(34 + 1),
        x \in 0..SlotsMaxMargin, y \in 0..1}
    \cup {<<w, h, {<<x, y>>, <<x + 34 + gap, y>>}>> :
        w \in 68..(68 + SlotsMaxMargin), h \in 34..(34 + 1),
        x \in 0..SlotsMaxMargin, y \in 0..1, gap \in 0..SlotsMaxMargin}

\* A screenshot of two slots, one drawn over a corner of the other: the
\* slot at `over` is whole, the slot at `under` shows where the first does
\* not cover it.
OverlaidShot(w, h, colour, over, under) ==
    [w |-> w, h |-> h,
     px |-> [k \in 1..(w * h) |->
                LET x == (k - 1) % w
                    y == (k - 1) \div w
                    In34(p) == x >= p[1] /\ x < p[1] + 34 /\ y >= p[2] /\ y < p[2] + 34
                IN  IF In34(over) THEN SlotTemplatePixel(x - over[1], y - over[2])
                    ELSE IF In34(under) THEN SlotTemplatePixel(x - under[1], y - under[2])
                    ELSE colour]]

\* The side, in pixels, of the square the two slots of an overlaid
\* screenshot share.
SlotsOverlaps == {20, 24}

Fits(layout) ==
    \A p \in layout[3] : p[1] + 34 <= layout[1] /\ p[2] + 34 <= layout[2]

InitSlots ==
    /\ \/ \E layout \in SlotLayouts, colour \in {ShotGray, BorderDark} :
            /\ Fits(layout)
            /\ fn_arg = [at |-> layout[3],
                         loot_image |-> Screenshot(layout[1], layout[2], colour, layout[3])]
       \/ \E o \in SlotsOverlaps :
            fn_arg = [at |-> {<<34 - o, 0>>, <<0, 34 - o>>},
                      loot_image |-> OverlaidShot(68 - o, 68 - o, ShotGray,
                                                  <<34 - o, 0>>, <<0, 34 - o>>)]
    /\ fn_ret = FindSlotsStart(fn_arg.loot_image)
    /\ fn_pc = "find_slots"
    /\ CogIdle /\ ScanIdle

FindSlotsStep ==
    /\ fn_pc = "find_slots"
    /\ ~FindSlotsDone(fn_ret)
    /\ fn_ret' = FindSlotsPass(fn_arg.loot_image, fn_ret)
    /\ UNCHANGED <<fn_arg, fn_pc>>
    /\ UNCHANGED <<cog_vars, scan_vars>>

FindSlotsReturn ==
    /\ fn_pc = "find_slots"
    /\ FindSlotsDone(fn_ret)
    /\ fn_pc' = "returned"
    /\ UNCHANGED <<fn_arg, fn_ret>>
    /\ UNCHANGED <<cog_vars, scan_vars>>

NextSlots == FindSlotsStep \/ FindSlotsReturn

SpecSlots == InitSlots /\ [][NextSlots]_vars

\* The slots of the screenshot in scan order: top to bottom, then left to
\* right.
RECURSIVE InScanOrder(_)
InScanOrder(at) ==
    IF at = {} THEN <<>>
    ELSE LET first == CHOOSE p \in at :
                         \A q \in at : p[2] < q[2] \/ (p[2] = q[2] /\ p[1] <= q[1])
         IN  <<first>> \o InScanOrder(at \ {first})

\* C10: find_slots returns exactly the well-formed slots of the screenshot,
\* each with its top-left coordinates, in scan order.
FindsEverySlot ==
    fn_pc = "returned" =>
        [k \in 1..Len(fn_ret.slot_list) |-> <<fn_ret.slot_list[k].x, fn_ret.slot_list[k].y>>]
            = InScanOrder(fn_arg.at)

\* C27: no two slots find_slots has emitted have 34 by 34 regions that
\* intersect.
NoOverlappingSlots ==
    \A a, b \in 1..Len(fn_ret.slot_list) :
        a # b => \/ Abs(fn_ret.slot_list[a].x - fn_ret.slot_list[b].x) >= 34
                 \/ Abs(fn_ret.slot_list[a].y - fn_ret.slot_list[b].y) >= 34

-----------------------------------------------------------------------------
(* loot_scan applied to a screenshot *)

\* Largest number of slots of a screenshot, and the side of a slot's
\* picture in pixels.
MaxSlots == 2
SlotSide == 2

Green == <<30, 200, 30, 255>>
Blue == <<30, 30, 200, 255>>
Dust == <<46, 40, 40, 255>>

\* Slot pictures: the bare slot background, a sprite of one colour filling
\* the slot, and the bare background with one pixel slightly off in its
\* bottom right corner.
Blank ==
    [w |-> SlotSide, h |-> SlotSide,
     px |-> [k \in 1..(SlotSide * SlotSide) |->
                getpixel(slot, ((k - 1) % SlotSide) + 1 + (32 - SlotSide),
                         ((k - 1) \div SlotSide) + 1 + (32 - SlotSide))]]

Solid(colour) ==
    [w |-> SlotSide, h |-> SlotSide, px |-> [k \in 1..(SlotSide * SlotSide) |-> colour]]

Dusty == [Blank EXCEPT !.px[SlotSide * SlotSide] = Dust]

\* A whole slot, 32 by 32: the slot background with a sprite of one colour,
\* SlotSide pixels a side, near its top left corner and the quantity n drawn
\* over it.
Stack(colour, n) ==
    DrawNumber([w |-> 32, h |-> 32,
                px |-> [k \in 1..(32 * 32) |->
                           LET x == (k - 1) % 32
                               y == (k - 1) \div 32
                           IN  IF x >= 3 /\ x < 3 + SlotSide /\ y >= 3 /\ y < 3 + SlotSide
                               THEN colour
                               ELSE getpixel(slot, x + 1, y + 1)]], n)

\* A blue sprite with one pixel left of the slot background, slightly off,
\* in its top left corner.
Smudged == [Solid(Blue) EXCEPT !.px[1] = Dust]

\* A sprite a shade off the red one: every pixel within the difference
\* scan_item lets pass but one, and a colour signature 62 away from the red
\* sprite's, which the query admits from quality 2 on.
Crimson == <<215, 15, 30, 255>>
Crimson2 == <<217, 13, 30, 255>>
Shaded == [Solid(Crimson) EXCEPT !.px[SlotSide * SlotSide] = Crimson2]

SlotPictures ==
    {Blank, Dusty, Solid(Red), Solid(Red2), Solid(Green), Solid(Blue), Smudged, Shaded}

\* Whole slots that show a quantity.
SlotStacks == {Stack(Red, 3), Stack(Green, 2), Stack(Blue, 2)}

\* The Items table the scans start from: two items added with item_new.
Items ==
    <<NewRow("Gold Coin", Solid(Red), "Other", 1),
      NewRow("Emerald Bangle", Solid(Green), "Jewels", 800)>>

RECURSIVE SeqsUpTo(_, _)
SeqsUpTo(S, n) ==
    IF n = 0 THEN {<<>>}
    ELSE LET shorter == SeqsUpTo(S, n - 1)
         IN  shorter \cup {Append(q, x) : q \in shorter, x \in S}

FnIdle == fn_arg = NoValue /\ fn_ret = NoValue /\ fn_pc = "idle"

InitScan ==
    /\ FnIdle /\ CogIdle
    /\ lootDatabase = Items
    /\ \E loadable \in BOOLEAN,
          pictures \in SeqsUpTo(SlotPictures, MaxSlots) \cup SeqsUpTo(SlotStacks, MaxSlots) :
            /\ ~loadable => pictures = <<>>
            /\ scan_arg = [loadable |-> loadable, pictures |-> pictures]
    /\ scan_pc = "load_image" /\ scan_ret = NoValue
    /\ locals = NoValue
    /\ status = <<>> /\ debug_folder = <<>>
    /\ queries = 0 /\ attempts = <<>> /\ verdicts = <<>>

\* An exception leaves loot_scan.
Raise(exception) ==
    /\ scan_pc' = "raised"
    /\ scan_ret' = exception

\* load_image, and the status update that follows it
LoadImage ==
    /\ scan_pc = "load_image"
    /\ IF scan_arg.loadable
       THEN /\ scan_pc' = "find_slots"
            /\ status' = Append(status, [text |-> "Detecting item slots", percent |-> -1])
            /\ UNCHANGED scan_ret
       ELSE /\ Raise(LootScanException("Either that wasn't an image or I failed to load it"))
            /\ UNCHANGED status
    /\ UNCHANGED <<fn_vars, cog_vars, lootDatabase, scan_arg, locals, debug_folder,
                   queries, attempts, verdicts>>

\* The locals loot_scan sets before its loop.
LocalsBeforeLoop(found) ==
    [slot_list |-> found, i |-> 0, quality |-> 0, result |-> NoValue,
     qz_item |-> NoValue, qz_item_crop |-> NoValue, found_item_number |-> 0,
     groups |-> EmptyDict, loot_list |-> <<>>, unknown_items |-> <<>>, lq_items |-> <<>>,
     quality_warning |-> 0, last_percent |-> 0, loot_image |-> <<>>]

\* What find_slots returns for the screenshot: its slots, left to right.
FoundSlots ==
    [k \in 1..Len(scan_arg.pictures) |->
        [image |-> scan_arg.pictures[k], x |-> 34 * (k - 1), y |-> 0]]

\* find_slots and the check of its result, first with the check left out,
\* then as the code has it.
FindSlotsUnchecked ==
    /\ scan_pc = "find_slots"
    /\ locals' = LocalsBeforeLoop(FoundSlots)
    /\ status' = Append(status, [text |-> "Scanning items", percent |-> 0])
    /\ scan_pc' = IF FoundSlots = <<>> THEN "complete" ELSE "slot"
    /\ UNCHANGED <<fn_vars, cog_vars, lootDatabase, scan_arg, scan_ret, debug_folder,
                   queries, attempts, verdicts>>

FindSlots ==
    /\ scan_pc = "find_slots"
    /\ IF FoundSlots = <<>>
       THEN /\ Raise(LootScanException("I couldn't find any inventory slots in your image."))
            /\ UNCHANGED <<locals, status>>
       ELSE /\ locals' = LocalsBeforeLoop(FoundSlots)
            /\ status' = Append(status, [text |-> "Scanning items", percent |-> 0])
            /\ scan_pc' = "slot"
            /\ UNCHANGED scan_ret
    /\ UNCHANGED <<fn_vars, cog_vars, lootDatabase, scan_arg, debug_folder,
                   queries, attempts, verdicts>>

\* found_slot
FoundSlot == locals.slot_list[locals.i + 1]

\* The head of the loop body: number_scan marks the slot's picture in
\* place, and qz_item is a copy of it cleared at quality 0.
StartSlot ==
    /\ scan_pc = "slot"
    /\ LET scanned == number_scan(FoundSlot.image)
           found_item == scanned.slot_image
           qz == clear_background(found_item, 0)
           qz_crop == crop_item(qz)
       IN  IF IsError(qz_crop)
           THEN /\ Raise(qz_crop)
                /\ UNCHANGED locals
           ELSE /\ locals' = [locals EXCEPT !.slot_list[locals.i + 1].image = found_item,
                                            !.found_item_number = scanned.number,
                                            !.result = Unknown,
                                            !.quality = 0,
                                            !.qz_item = qz,
                                            !.qz_item_crop = qz_crop]
                /\ scan_pc' = "attempt"
                /\ UNCHANGED scan_ret
    /\ attempts' = <<>>
    /\ UNCHANGED <<fn_vars, cog_vars, lootDatabase, scan_arg, status, debug_folder,
                   queries, verdicts>>

\* found_item_clear and found_item_crop of the pass the loop is about to
\* make.
FoundItemClear == clear_background(FoundSlot.image, locals.quality)
FoundItemCrop == crop_item(FoundItemClear)

\* A pass of the while loop that finds the slot empty; result is "Empty"
\* and quality 30, so the loop ends and neither of the blocks after it
\* runs.  First with the slot counted as an item all the same, then as the
\* code has it.
AttemptEmptyTallied ==
    /\ scan_pc = "attempt"
    /\ FoundItemCrop = None
    /\ locals' = [locals EXCEPT !.slot_list[locals.i + 1].image = FoundItemClear,
                                !.result = Empty,
                                !.quality = 30,
                                !.loot_list = Append(@, [name |-> "Empty", count |-> 1,
                                                         group |-> "Unknown", value |-> 0])]
    /\ verdicts' = Append(verdicts, "Empty")
    /\ scan_pc' = "progress"
    /\ UNCHANGED <<fn_vars, cog_vars, lootDatabase, scan_arg, scan_ret, status, debug_folder,
                   queries, attempts>>

AttemptEmpty ==
    /\ scan_pc = "attempt"
    /\ LET found_item_clear == FoundItemClear
       IN  /\ crop_item(found_item_clear) = None
           /\ locals' = [locals EXCEPT !.slot_list[locals.i + 1].image = found_item_clear,
                                       !.result = Empty,
                                       !.quality = 30]
    /\ verdicts' = Append(verdicts, "Empty")
    /\ scan_pc' = "progress"
    /\ UNCHANGED <<fn_vars, cog_vars, lootDatabase, scan_arg, scan_ret, status, debug_folder,
                   queries, attempts>>

\* A pass of the while loop that queries the table and calls scan_item,
\* and the loop's test after it.
AttemptScan ==
    /\ scan_pc = "attempt"
    /\ LET found_item_clear == FoundItemClear
           found_item_crop == crop_item(found_item_clear)
       IN
       /\ found_item_crop # None
       /\ IF IsError(found_item_crop)
          THEN /\ Raise(found_item_crop)
               /\ UNCHANGED <<locals, queries, attempts, verdicts>>
          ELSE LET item_list == ItemList(lootDatabase, locals.unknown_items, locals.lq_items,
                                         found_item_crop, locals.quality)
                   scanned == scan_item(found_item_crop, item_list, locals.groups,
                                        locals.quality)
                   quality2 == NextQuality(locals.quality)
               IN  /\ queries' = queries + 1
                   /\ attempts' = Append(attempts, locals.quality)
                   /\ IF IsError(scanned)
                      THEN /\ Raise(scanned)
                           /\ UNCHANGED <<locals, verdicts>>
                      ELSE /\ locals' = [locals EXCEPT
                                           !.slot_list[locals.i + 1].image = found_item_clear,
                                           !.result = scanned,
                                           !.quality = quality2,
                                           !.lq_items = AfterMatch(@, scanned)]
                           /\ UNCHANGED scan_ret
                           /\ IF scanned = Unknown /\ quality2 < 30
                              THEN scan_pc' = "attempt" /\ UNCHANGED verdicts
                              ELSE IF scanned = Unknown
                              THEN scan_pc' = "unknown"
                                   /\ verdicts' = Append(verdicts, "UnknownFinal")
                              ELSE scan_pc' = "record"
                                   /\ verdicts' = Append(verdicts, "Matched")
    /\ UNCHANGED <<fn_vars, cog_vars, lootDatabase, scan_arg, status, debug_folder>>

\* The slot no attempt matched becomes an Unknown record of the session.
FinalizeUnknown ==
    /\ scan_pc = "unknown"
    /\ LET unknown_image == clear_background(FoundSlot.image, 0)
           unknown_image_crop == crop_item(unknown_image)
       IN  IF ~IsImage(unknown_image_crop)
           THEN /\ Raise(IF unknown_image_crop = None THEN AttributeError
                         ELSE unknown_image_crop)
                /\ UNCHANGED locals
           ELSE /\ locals' = [locals EXCEPT
                                !.slot_list[locals.i + 1].image = unknown_image,
                                !.result = UnknownRecord(unknown_image_crop),
                                !.found_item_number = 1,
                                !.unknown_items = Append(@, UnknownRecord(unknown_image_crop))]
                /\ scan_pc' = "archive"
                /\ UNCHANGED scan_ret
    /\ UNCHANGED <<fn_vars, cog_vars, lootDatabase, scan_arg, status, debug_folder,
                   queries, attempts, verdicts>>

\* The debug folder is made and the three pictures are saved in it.
ArchiveSaved ==
    /\ scan_pc = "archive"
    /\ debug_folder' = Append(debug_folder, [slot |-> locals.i + 1,
                                             clean |-> FoundSlot.image])
    /\ scan_pc' = "record"
    /\ UNCHANGED <<fn_vars, cog_vars, lootDatabase, scan_arg, scan_ret, locals, status,
                   queries, attempts, verdicts>>

\* os.makedirs or one of the saves raises; nothing around them catches it.
ArchiveFails ==
    /\ scan_pc = "archive"
    /\ Raise(OSError)
    /\ UNCHANGED <<fn_vars, cog_vars, lootDatabase, scan_arg, locals, status, debug_folder,
                   queries, attempts, verdicts>>

\* The block for a result that is a dict: the low-quality cache, the
\* tally, the group score and the priorities, and the marks on loot_image.
Record ==
    /\ scan_pc = "record"
    /\ LET low == IsLowQuality(locals.result, locals.quality, locals.unknown_items,
                               locals.lq_items)
           matched == IF low THEN LqItem(locals.result, locals.qz_item, locals.qz_item_crop)
                      ELSE locals.result
           known == matched.group # "Unknown"
           warned == low /\ locals.quality_warning + 1 = 5
       IN  /\ locals' = [locals EXCEPT
                            !.result = matched,
                            !.quality_warning = IF low THEN @ + 1 ELSE @,
                            !.lq_items = IF low THEN Append(@, matched) ELSE @,
                            !.loot_list = Tally(@, matched, locals.found_item_number),
                            !.groups = IF known THEN GroupsAfter(@, matched.group) ELSE @,
                            !.loot_image = Append(@, [slot |-> locals.i + 1,
                                                      item |-> IF known THEN matched.name
                                                               ELSE "",
                                                      icon |-> GroupIcon(matched)])]
           /\ lootDatabase' = IF known
                              THEN UpdatePriority(lootDatabase, matched.name, matched.group)
                              ELSE lootDatabase
           /\ queries' = IF known THEN queries + 2 ELSE queries
           /\ status' = IF warned THEN Append(status, [text |-> "WARNING", percent |-> -1])
                        ELSE status
    /\ scan_pc' = "progress"
    /\ UNCHANGED <<fn_vars, cog_vars, scan_arg, scan_ret, debug_folder, attempts, verdicts>>

\* The end of the loop body: the progress report, and the next slot.
Progress ==
    /\ scan_pc = "progress"
    /\ LET len == Len(locals.slot_list)
           current_percent == CurrentPercent(locals.i, len)
       IN  /\ status' = IF ReportDue(current_percent, locals.last_percent)
                        THEN Append(status, [text |-> "Scanning items",
                                             percent |-> current_percent])
                        ELSE status
           /\ locals' = [locals EXCEPT !.last_percent = current_percent, !.i = @ + 1]
           /\ scan_pc' = IF locals.i + 1 < len THEN "slot" ELSE "complete"
    /\ UNCHANGED <<fn_vars, cog_vars, lootDatabase, scan_arg, scan_ret, debug_folder,
                   queries, attempts, verdicts>>

\* After the loop: the last status update, and the return.
Complete ==
    /\ scan_pc = "complete"
    /\ status' = Append(status, [text |-> "Complete!", percent |-> -1])
    /\ scan_ret' = [loot_list |-> locals.loot_list, image |-> locals.loot_image]
    /\ scan_pc' = "returned"
    /\ UNCHANGED <<fn_vars, cog_vars, lootDatabase, scan_arg, locals, debug_folder,
                   queries, attempts, verdicts>>

\* Loot.loot after loot_scan returned: the report it sends.
LootReport ==
    /\ scan_pc = "returned"
    /\ calls' = Append(calls, Report(scan_ret.loot_list))
    /\ scan_pc' = "reported"
    /\ UNCHANGED <<fn_vars, processing_users, lootDatabase, scan_arg, scan_ret, locals,
                   status, debug_folder, queries, attempts, verdicts>>

NextScan ==
    \/ LoadImage \/ FindSlots \/ StartSlot \/ AttemptEmpty \/ AttemptScan
    \/ FinalizeUnknown \/ ArchiveSaved \/ ArchiveFails \/ Record \/ Progress \/ Complete
    \/ LootReport

SpecScan == InitScan /\ [][NextScan]_vars

\* The qualities of the attempts of a slot no candidate matches.
QualitySchedule == <<0, 2, 4, 6, 9, 13, 19, 28>>

\* C2: for every slot scan_item is called at most 8 times, at the qualities
\* 0, 2, 4, 6, 9, 13, 19, 28 in this order (each above the one before, none
\* at 30 or more), and the retry loop ends in exactly one of Empty, Matched
\* and UnknownFinal, the last only after all 8 attempts.
RetryLoopBounded ==
    /\ Len(attempts) <= Len(QualitySchedule)
    /\ \A k \in 1..Len(attempts) : attempts[k] = QualitySchedule[k] /\ attempts[k] < 30
    /\ \A k \in 2..Len(attempts) : attempts[k] > attempts[k - 1]
    /\ scan_pc = "attempt" => locals.result = Unknown /\ locals.quality < 30
    /\ scan_pc \in {"unknown", "archive", "record", "progress"} =>
          /\ Len(verdicts) = locals.i + 1
          /\ verdicts[locals.i + 1] \in {"Empty", "Matched", "UnknownFinal"}
          /\ verdicts[locals.i + 1] = "Empty" <=> locals.result = Empty
          /\ verdicts[locals.i + 1] = "Matched" => IsItem(locals.result)
          /\ verdicts[locals.i + 1] = "UnknownFinal" =>
                /\ attempts = QualitySchedule
                /\ locals.quality >= 30
                /\ IF scan_pc = "unknown" THEN locals.result = Unknown
                   ELSE In(locals.result, locals.unknown_items)

\* A slot finalized as Unknown after the eighth attempt, and archived.
RetryLoopBoundedWitness ==
    /\ scan_pc = "record"
    /\ verdicts[locals.i + 1] = "UnknownFinal"
    /\ attempts = QualitySchedule
    /\ debug_folder # <<>>

\* C3: a failure to save the debug pictures of an unmatched slot does not
\* end the scan.
ArchiveFailureTolerated ==
    ~(scan_pc = "raised" /\ scan_ret = OSError)

\* C4: a screenshot without slots ends loot_scan with LootScanException
\* before any statement is executed on the Items table, and a screenshot
\* whose slots are all empty makes it return an empty tally.
NoSlotsFailsBeforeStore ==
    /\ (scan_pc \in {"returned", "raised"} /\ scan_arg.loadable /\ scan_arg.pictures = <<>>) =>
          /\ scan_pc = "raised"
          /\ scan_ret = LootScanException("I couldn't find any inventory slots in your image.")
          /\ queries = 0
          /\ lootDatabase = Items
    /\ (scan_pc \in {"returned", "raised"} /\ scan_arg.pictures # <<>>
        /\ \A k \in 1..Len(verdicts) : verdicts[k] = "Empty") =>
          /\ scan_pc = "returned"
          /\ Len(verdicts) = Len(scan_arg.pictures)
          /\ scan_ret.loot_list = <<>>

\* loot_scan has raised for a screenshot that loaded and has no slots.
NoSlotsFailsBeforeStoreWitness ==
    /\ scan_pc = "raised"
    /\ scan_arg.loadable
    /\ scan_arg.pictures = <<>>
    /\ IsError(scan_ret)

\* The sprite the coming pass of the loop looks at has only white or
\* transparent pixels.
SpriteIsBlank ==
    /\ scan_pc = "attempt"
    /\ \A k \in 1..Len(FoundItemClear.px) :
          is_white(FoundItemClear.px[k]) \/ is_transparent(FoundItemClear.px[k])

\* What a slot can add to: the tally, the session lists, the group scores,
\* the priorities, and the attempts made.
Counted ==
    <<locals.loot_list, locals.unknown_items, locals.lq_items, locals.groups,
      lootDatabase, attempts>>

\* C6: when the cleared sprite of a slot has only white or transparent
\* pixels, crop_item returns None and the slot ends as Empty: scan_item is
\* not called for it again, and neither that pass of the loop nor the rest
\* of the loop body adds anything to the tally, to unknown_items, to
\* lq_items, to the group scores or to the priorities.
EmptySlotAddsNothing ==
    [][/\ SpriteIsBlank =>
            /\ crop_item(FoundItemClear) = None
            /\ locals'.result = Empty
            /\ scan_pc' = "progress"
            /\ verdicts' = Append(verdicts, "Empty")
            /\ Counted' = Counted
       /\ (scan_pc = "progress" /\ locals.result = Empty) => Counted' = Counted]_vars

\* A slot found empty after an earlier slot was counted and after attempts
\* of its own.
EmptySlotAddsNothingWitness ==
    /\ scan_pc = "progress"
    /\ locals.result = Empty
    /\ locals.loot_list # <<>>
    /\ attempts # <<>>

\* The quantity number_scan reads from slot k of the screenshot, and the
\* value the Items table holds for a name.
QuantityRead(k) == number_scan(scan_arg.pictures[k]).number
CatalogValue(name) == (CHOOSE row \in {Items[k] : k \in 1..Len(Items)} : row.name = name).value

\* The slots marked on loot_image as a catalog item, and the slots marked
\* as Unknown.
MatchedMarks == {m \in 1..Len(locals.loot_image) : locals.loot_image[m].item # ""}
UnknownMarks == {m \in 1..Len(locals.loot_image) : locals.loot_image[m].item = ""}

\* The sum of quantity times value over the marks from m on.
RECURSIVE MatchedValueFrom(_)
MatchedValueFrom(m) ==
    IF m > Len(locals.loot_image) THEN 0
    ELSE (IF m \in MatchedMarks
          THEN QuantityRead(locals.loot_image[m].slot) * CatalogValue(locals.loot_image[m].item)
          ELSE 0)
         + MatchedValueFrom(m + 1)

Reported == scan_pc = "reported" /\ "total_value" \in DOMAIN calls[1]

\* C12: the total value reported is the sum, over the slots that resolved to
\* a catalog item, of the quantity read from the slot times the item's value;
\* Empty and Unknown slots add nothing.
TotalIsSumOverMatchedSlots ==
    Reported => calls[1].total_value = MatchedValueFrom(1)

\* A slot of three Gold Coins next to an unmatched slot that shows digits
\* too: the total is 3.
TotalIsSumOverMatchedSlotsWitness ==
    /\ Reported
    /\ calls[1].total_value = 3
    /\ \E m \in MatchedMarks : QuantityRead(locals.loot_image[m].slot) = 3
    /\ \E m \in UnknownMarks : QuantityRead(locals.loot_image[m].slot) = 2

\* C13: the Unknown count reported is the number of slots that were not
\* matched to a catalog item, one for each such slot.
UnknownCountIsUnresolvedSlots ==
    Reported =>
        IF UnknownMarks = {} THEN calls[1].unknown = <<>>
        ELSE calls[1].unknown = <<Cardinality(UnknownMarks)>>

\* The slots that finished the retry loop as UnknownFinal, and the pairs of
\* an earlier such slot and a later slot with the same picture.
FinalizedSlots == {k \in 1..Len(verdicts) : verdicts[k] = "UnknownFinal"}
RepeatedUnknown ==
    {kj \in FinalizedSlots \X (1..Len(verdicts)) :
        kj[1] < kj[2] /\ scan_arg.pictures[kj[1]] = scan_arg.pictures[kj[2]]}

ScanReturned == scan_pc \in {"returned", "reported"}

RepeatResolvedWithoutQuery ==
    \A kj \in RepeatedUnknown :
        (scan_pc = "record" /\ Len(verdicts) = kj[2]) => attempts = <<>>

\* C18: when a slot matched to a catalog fingerprint is recorded, the
\* priority the Items table holds for that fingerprint becomes 400 higher
\* than it was before the match.
StoredPriorityRaisedBy400 ==
    [][(scan_pc = "record" /\ locals.result.group # "Unknown") =>
           \A k \in 1..Len(lootDatabase) :
               lootDatabase[k].name = locals.result.name =>
                   lootDatabase'[k].priority = lootDatabase[k].priority + 400]_vars

\* A row of the Items table without its priority.
Fingerprint(row) == [row EXCEPT !.priority = 0]

MatchQuality == attempts[Len(attempts)]

\* The record of the slot is one the session already holds.
SessionCached == In(locals.result, locals.unknown_items) \/ In(locals.result, locals.lq_items)

\* The step appends one record to lq_items.
CachedNow == Len(locals'.lq_items) = Len(locals.lq_items) + 1

\* C20 as stated: the record of a slot is added to lq_items if and only if
\* the quality of the attempt at which it matched is greater than 2 and the
\* record is not already in unknown_items or lq_items.
CachedIffAttemptQualityAbove2 ==
    [][(scan_pc = "record" /\ scan_pc' = "progress") =>
           (CachedNow <=> (MatchQuality > 2 /\ ~SessionCached))]_vars

\* C20: the record of a slot is added to lq_items if and only if it matched
\* at an attempt after the first (the attempt's quality is at least 2, so
\* that quality is greater than 2 once the attempt has raised it) and the
\* record is not already in unknown_items or lq_items; a slot matched at the
\* first attempt is never cached, and no Unknown record is in lq_items.
CachedIffMatchedAfterFirstAttempt ==
    [][(scan_pc = "record" /\ scan_pc' = "progress") =>
           /\ CachedNow <=> (MatchQuality >= 2 /\ ~SessionCached)
           /\ ~CachedNow => Len(locals'.lq_items) = Len(locals.lq_items)
           /\ MatchQuality = 0 => ~CachedNow
           /\ \A k \in 1..Len(locals'.lq_items) :
                  locals'.lq_items[k].name # "Unknown"]_vars

\* A slot that matched a catalog row at the attempt of quality 2 has been
\* recorded and its record is in lq_items.
CachedIffMatchedAfterFirstAttemptWitness ==
    /\ scan_pc = "progress"
    /\ verdicts # <<>> /\ verdicts[Len(verdicts)] = "Matched"
    /\ attempts # <<>> /\ MatchQuality = 2
    /\ In(locals.result, locals.lq_items)
    /\ locals.result.name # "Unknown"

\* The loop is about to make a pass that calls scan_item.
AttemptDue ==
    /\ scan_pc = "attempt"
    /\ FoundItemCrop # None
    /\ ~IsError(FoundItemCrop)

\* The list the pass hands to scan_item.
CandidateList ==
    ItemList(lootDatabase, locals.unknown_items, locals.lq_items, FoundItemCrop,
             locals.quality)

\* A session record whose box is within 3 pixels of the sprite's on both axes.
BoxWithin3(item) ==
    /\ Abs(item.sizeX - FoundItemCrop.w) <= 3
    /\ Abs(item.sizeY - FoundItemCrop.h) <= 3

\* C21: in every attempt the candidate list is the result of the query, then
\* every unknown_items record whose box is within 3 pixels of the sprite's,
\* then, in the attempt at quality 0 only, the lq_items records that pass the
\* same test; at a quality above 0 the list holds no lq_items record.
CandidatesOfAttempt ==
    AttemptDue =>
        LET rows == SelectItems(lootDatabase, FoundItemCrop, get_item_size(FoundItemCrop),
                                get_item_color(FoundItemCrop), 60 + 2 * locals.quality)
            unknowns == SelectSeq(locals.unknown_items, BoxWithin3)
            cached == SelectSeq(locals.lq_items, BoxWithin3)
        IN  /\ CandidateList = rows \o unknowns \o (IF locals.quality = 0 THEN cached ELSE <<>>)
            /\ locals.quality > 0 =>
                   \A k \in 1..Len(CandidateList) : "original" \notin DOMAIN CandidateList[k]

\* An attempt at a quality above 0 is due while lq_items holds a record
\* whose box is the sprite's.
CandidatesOfAttemptWitness ==
    /\ AttemptDue
    /\ locals.quality > 0
    /\ SelectSeq(locals.lq_items, BoxWithin3) # <<>>

\* The group the Items table holds for a name.
CatalogGroup(name) == (CHOOSE row \in {Items[k] : k \in 1..Len(Items)} : row.name = name).group

\* The slots processed so far that resolved to a catalog item of group g.
MatchedInGroup(g) == {m \in MatchedMarks : CatalogGroup(locals.loot_image[m].item) = g}

\* C24: at every point of a scan, for every group g, groups[g] (0 when g is
\* not a key) is 100 times the number of slots processed so far that resolved
\* to a catalog item of group g, and "Unknown" is not a key of groups; so
\* Empty and Unknown slots leave groups as it is.
GroupsCountMatches ==
    "groups" \in DOMAIN locals =>
        /\ \A g \in DOMAIN locals.groups \cup {Items[k].group : k \in 1..Len(Items)} :
               groups_get(locals.groups, g) = 100 * Cardinality(MatchedInGroup(g))
        /\ "Unknown" \notin DOMAIN locals.groups

\* Two slots were processed, one resolved to a catalog item and one to
\* Unknown, and the score of the item's group is 100.
GroupsCountMatchesWitness ==
    /\ scan_pc = "progress"
    /\ Len(locals.loot_image) = 2
    /\ Cardinality(MatchedMarks) = 1 /\ Cardinality(UnknownMarks) = 1
    /\ \E g \in DOMAIN locals.groups : locals.groups[g] = 100

-----------------------------------------------------------------------------
(* scan_item applied to a sprite and a list of candidates *)

\* Largest number of candidates of a list.
ListMaxLen == 2

\* Candidates: catalog rows at two priorities (two of them with the same
\* frame under different names) and session Unknown records.
CatalogPool ==
    {[row EXCEPT !.priority = p] :
        row \in {NewRow("Gold Coin", Solid(Red), "Other", 1),
                 NewRow("Gold Nugget", Solid(Red), "Other", 0),
                 NewRow("Small Ruby", Solid(Red2), "Jewels", 250)},
        p \in {0, 5}}

UnknownPool == {UnknownRecord(crop_item(Solid(c))) : c \in {Red, Blue}}

ListSprites == {crop_item(Solid(c)) : c \in {Red, Red2, Blue}}

ListGroups == {EmptyDict, [g \in {"Jewels"} |-> 100]}

InitList ==
    /\ \E slot_item \in ListSprites,
          item_list \in SeqsUpTo(CatalogPool \cup UnknownPool, ListMaxLen),
          groups \in ListGroups,
          quality \in {5, 13} :
            fn_arg = [slot_item |-> slot_item, item_list |-> item_list,
                      groups |-> groups, quality |-> quality]
    /\ fn_ret = NoValue
    /\ fn_pc = "scan"
    /\ CogIdle /\ ScanIdle

\* One call of scan_item.
ScanList ==
    /\ fn_pc = "scan"
    /\ fn_ret' = [result |-> scan_item(fn_arg.slot_item, fn_arg.item_list,
                                       fn_arg.groups, fn_arg.quality),
                  compared |-> Compared(fn_arg.slot_item, fn_arg.item_list,
                                        fn_arg.groups, fn_arg.quality),
                  item_list |-> ItemListAfter(fn_arg.slot_item, fn_arg.item_list,
                                              fn_arg.groups, fn_arg.quality)]
    /\ fn_pc' = "done"
    /\ UNCHANGED fn_arg
    /\ UNCHANGED <<cog_vars, scan_vars>>

NextList == ScanList

SpecList == InitList /\ [][NextList]_vars

\* Candidate k of the list is a catalog fingerprint whose cropped frame is
\* the sprite presented.
IdenticalCatalog(k) ==
    /\ fn_arg.item_list[k].name # "Unknown"
    /\ CandidateImage(fn_arg.item_list[k]) = fn_arg.slot_item

\* Every other candidate of the list is rejected at the quality of the call.
OthersRejected(k) ==
    \A m \in 1..Len(fn_arg.item_list) :
        m # k => ~Accepts(fn_arg.slot_item, fn_arg.item_list[m], fn_arg.quality)

\* C11 as stated: at quality 5, whenever the list holds a catalog fingerprint
\* whose cropped frame is the sprite, scan_item returns that fingerprint with
\* its priority raised by 400.
IdenticalCandidateReturned ==
    (fn_pc = "done" /\ fn_arg.quality = 5) =>
        \A k \in 1..Len(fn_arg.item_list) :
            IdenticalCatalog(k) =>
                fn_ret.result = [fn_arg.item_list[k] EXCEPT !.priority = @ + 400]

\* C11: at quality 5, when the list holds a catalog fingerprint whose cropped
\* frame is the sprite and every other candidate of the list is rejected
\* (in particular when it is the only candidate), scan_item returns that
\* fingerprint with its priority raised by 400.
IdenticalSoleCandidateReturned ==
    (fn_pc = "done" /\ fn_arg.quality = 5) =>
        \A k \in 1..Len(fn_arg.item_list) :
            (IdenticalCatalog(k) /\ OthersRejected(k)) =>
                fn_ret.result = [fn_arg.item_list[k] EXCEPT !.priority = @ + 400]

\* The identical fingerprint returned from a list of two, after the other
\* candidate was compared and rejected.
IdenticalSoleCandidateWitness ==
    /\ fn_pc = "done" /\ fn_arg.quality = 5
    /\ Len(fn_arg.item_list) = 2
    /\ Len(fn_ret.compared) = 2
    /\ \E k \in 1..2 :
          /\ IdenticalCatalog(k) /\ OthersRejected(k)
          /\ fn_ret.result.priority = fn_arg.item_list[k].priority + 400

\* C16: in the order scan_item compares the candidates, every session
\* Unknown record comes after every catalog candidate of the list.
UnknownComparedLast ==
    fn_pc = "done" =>
        \A a, b \in 1..Len(fn_ret.compared) :
            (fn_ret.compared[a].name = "Unknown" /\ fn_ret.compared[b].name # "Unknown")
                => b < a

\* priority + groups.get(group, 0) of a candidate of the call.
Score(item) == item.priority + groups_get(fn_arg.groups, item.group)

\* The orders of the candidates of the call that are descending by score
\* and keep candidates of equal score in their order in the list.
StableDescending ==
    LET n == Len(fn_arg.item_list)
    IN  {perm \in [1..n -> 1..n] :
            /\ \A k, m \in 1..n : k # m => perm[k] # perm[m]
            /\ \A k, m \in 1..n :
                   k < m => \/ Score(fn_arg.item_list[perm[k]]) > Score(fn_arg.item_list[perm[m]])
                            \/ /\ Score(fn_arg.item_list[perm[k]]) = Score(fn_arg.item_list[perm[m]])
                               /\ perm[k] < perm[m]}

\* C22: scan_item compares the candidates in descending order of
\* priority + groups score, candidates of equal score in their order in the
\* input list.
ComparedInScoreOrder ==
    fn_pc = "done" =>
        \E perm \in StableDescending :
            /\ Len(fn_ret.compared) <= Len(fn_arg.item_list)
            /\ \A k \in 1..Len(fn_ret.compared) :
                   fn_ret.compared[k] = fn_arg.item_list[perm[k]]

\* Two candidates were compared, the second of the list first, because the
\* score of its group outweighs the higher priority of the first.
ComparedInScoreOrderWitness ==
    /\ fn_pc = "done"
    /\ Len(fn_arg.item_list) = 2 /\ Len(fn_ret.compared) = 2
    /\ fn_arg.item_list[1].priority > fn_arg.item_list[2].priority
    /\ Score(fn_arg.item_list[1]) < Score(fn_arg.item_list[2])
    /\ fn_ret.compared[1] = fn_arg.item_list[2]
    /\ fn_ret.compared[1] # fn_ret.compared[2]

\* The candidate at place j of the input list runs its comparison to the end.
Completes(j) == Accepts(fn_arg.slot_item, fn_arg.item_list[j], fn_arg.quality)

\* C23: scan_item returns the first candidate, in its sorted order, whose
\* comparison completes (an Unknown record as it is, a catalog row with its
\* priority raised by 400), compares no candidate after it and changes no
\* field of any other candidate, nor any other field of the returned one;
\* when no candidate completes it returns "Unknown" and leaves every
\* candidate as it was.
FirstCompletingReturned ==
    fn_pc = "done" =>
        \E perm \in StableDescending :
            LET n == Len(fn_arg.item_list)
                hits == {r \in 1..n : Completes(perm[r])}
            IN  IF hits = {}
                THEN /\ fn_ret.result = Unknown
                     /\ fn_ret.item_list = fn_arg.item_list
                     /\ Len(fn_ret.compared) = n
                ELSE LET r == CHOOSE h \in hits : \A m \in hits : h <= m
                         item == fn_arg.item_list[perm[r]]
                         returned == IF item.name = "Unknown" THEN item
                                     ELSE [item EXCEPT !.priority = @ + 400]
                     IN  /\ fn_ret.result = returned
                         /\ Len(fn_ret.compared) = r
                         /\ fn_ret.compared[r] = item
                         /\ fn_ret.item_list = [fn_arg.item_list EXCEPT ![perm[r]] = returned]

\* The second candidate in sorted order was returned after the first was
\* compared and rejected.
FirstCompletingReturnedWitness ==
    /\ fn_pc = "done"
    /\ Len(fn_arg.item_list) = 2 /\ Len(fn_ret.compared) = 2
    /\ fn_ret.result # Unknown
    /\ fn_ret.result.name # "Unknown"
    /\ fn_ret.item_list # fn_arg.item_list

-----------------------------------------------------------------------------
(* clear_background applied to a picture: on a copy, then twice in place *)

\* Pixels at and near the two shades of the slot background, and a filled
\* one.
ClearPalette == {SlotBackgroundA, Dust, Red}

\* Largest width of the pictures clear_background is applied to; they are
\* one pixel high.
ClearMaxW == 3

\* Qualities of the retry loop.
ClearQualities == {0, 4, 6, 13}

InitClear ==
    /\ \E slot_item \in Images(ClearPalette, ClearMaxW, 1), q1 \in ClearQualities,
          q2 \in ClearQualities :
            fn_arg = [slot_item |-> slot_item, q1 |-> q1, q2 |-> q2]
    /\ fn_ret = NoValue
    /\ fn_pc = "copy"
    /\ CogIdle /\ ScanIdle

\* clear_background(slot_item, q1, copy=True)
ClearCopy ==
    /\ fn_pc = "copy"
    /\ fn_ret' = clear_background_call(fn_arg.slot_item, fn_arg.q1, TRUE)
    /\ fn_pc' = "first"
    /\ UNCHANGED fn_arg
    /\ UNCHANGED <<cog_vars, scan_vars>>

\* clear_background(slot_item, q1) and then clear_background(slot_item, q2)
\* on the caller's image, as two passes of the retry loop make them.
ClearInPlace ==
    /\ fn_pc \in {"first", "second"}
    /\ LET quality == IF fn_pc = "first" THEN fn_arg.q1 ELSE fn_arg.q2
       IN  fn_ret' = [fn_ret EXCEPT
                         !.slot_item = clear_background_call(@, quality, FALSE).slot_item]
    /\ fn_pc' = IF fn_pc = "first" THEN "second" ELSE "done"
    /\ UNCHANGED fn_arg
    /\ UNCHANGED <<cog_vars, scan_vars>>

NextClear == ClearCopy \/ ClearInPlace

SpecClear == InitClear /\ [][NextClear]_vars

\* The pixel of slot.png behind pixel k of the picture.
Behind(k) ==
    getpixel(slot, ((k - 1) % fn_arg.slot_item.w) + 1 + (32 - fn_arg.slot_item.w),
             ((k - 1) \div fn_arg.slot_item.w) + 1 + (32 - fn_arg.slot_item.h))

\* The picture with alpha 0 in exactly the pixels within q of the slot
\* background behind them.
ClearedAt(q) ==
    [fn_arg.slot_item EXCEPT !.px =
        [k \in 1..Len(fn_arg.slot_item.px) |->
            IF get_pixel_diff(fn_arg.slot_item.px[k], Behind(k)) <= q
            THEN <<fn_arg.slot_item.px[k][1], fn_arg.slot_item.px[k][2],
                   fn_arg.slot_item.px[k][3], 0>>
            ELSE fn_arg.slot_item.px[k]]]

\* The pixels of an image that have alpha 0.
ClearPixels(im) == {k \in 1..Len(im.px) : im.px[k][4] = 0}

\* im differs from the picture in alpha only, and only by alpha 0.
OnlyAlphaCleared(im) ==
    /\ im.w = fn_arg.slot_item.w /\ im.h = fn_arg.slot_item.h
    /\ \A k \in 1..Len(im.px) :
           /\ im.px[k][1] = fn_arg.slot_item.px[k][1]
           /\ im.px[k][2] = fn_arg.slot_item.px[k][2]
           /\ im.px[k][3] = fn_arg.slot_item.px[k][3]
           /\ im.px[k][4] \in {fn_arg.slot_item.px[k][4], 0}

\* C26: clear_background changes nothing but alpha, to 0; with copy=True the
\* caller's image is left as it was; clearing in place at q1 and then at q2
\* gives the picture cleared once at max(q1, q2); and the pixels cleared at
\* q1 are among those cleared at any larger quality.
ClearingComposes ==
    /\ fn_pc \in {"first", "second", "done"} =>
           /\ OnlyAlphaCleared(fn_ret.returned)
           /\ OnlyAlphaCleared(fn_ret.slot_item)
           /\ fn_ret.returned = ClearedAt(fn_arg.q1)
    /\ fn_pc = "first" => fn_ret.slot_item = fn_arg.slot_item
    /\ fn_pc = "second" => fn_ret.slot_item = ClearedAt(fn_arg.q1)
    /\ fn_pc = "done" =>
           /\ fn_ret.slot_item = ClearedAt(Max2(fn_arg.q1, fn_arg.q2))
           /\ fn_arg.q1 <= fn_arg.q2 =>
                  ClearPixels(fn_ret.returned) \subseteq ClearPixels(fn_ret.slot_item)

\* The picture was cleared in place at a quality and then at a lower one,
\* and holds a pixel that the first pass cleared and the second alone would
\* not have.
ClearingComposesWitness ==
    /\ fn_pc = "done"
    /\ fn_arg.q2 < fn_arg.q1
    /\ ClearPixels(ClearedAt(fn_arg.q2)) # ClearPixels(fn_ret.slot_item)
    /\ fn_ret.slot_item # fn_arg.slot_item

-----------------------------------------------------------------------------
(* The curator functions item_new, item_add and item_remove, and the priority
   updates of the scans, applied to the Items table in any order *)

\* A name is the sequence of its characters; the curator's argument is a LIKE
\* pattern, in which "%" stands for any run of characters and "_" for any
\* one, and letters match whatever their case.
Lower(ch) == IF ch = "G" THEN "g" ELSE IF ch = "E" THEN "e" ELSE ch

RECURSIVE LikeChars(_, _)
LikeChars(name, pattern) ==
    IF pattern = <<>> THEN name = <<>>
    ELSE IF Head(pattern) = "%"
         THEN LikeChars(name, Tail(pattern)) \/ (name # <<>> /\ LikeChars(Tail(name), pattern))
    ELSE /\ name # <<>>
         /\ Head(pattern) = "_" \/ Lower(Head(name)) = Lower(Head(pattern))
         /\ LikeChars(Tail(name), Tail(pattern))

\* name LIKE pattern
Like(name, pattern) == LikeChars(name.chars, pattern.chars)

\* SELECT * FROM Items WHERE name LIKE ?
SelectLike(table, item) == SelectSeq(table, LAMBDA row : Like(row.name, item))

\* The strip of the frames of the rows found, which the curator functions
\* return.
output_image(item_list) == [strip |-> [k \in 1..Len(item_list) |-> item_list[k].frame]]

\* The row item_add inserts for a frame, first with the priority of a new
\* item, then as the code has it: name, group, priority and value are those
\* of the first row found.
AddedRowAtPriority0(first, frame) == NewRow(first.name, frame, first.group, first.value)

AddedRow(first, frame) ==
    [NewRow(first.name, frame, first.group, first.value) EXCEPT !.priority = first.priority]

\* item_new(item, frame, group, value): what it returns or raises, and the
\* table it leaves. The group is always a string here, a part of the text
\* loot_new splits at the comma, so `group is None` does not hold.
item_new(table, item, frame, group, value) ==
    IF item = None THEN [returned |-> None, table |-> table]
    ELSE IF Len(SelectLike(table, item)) # 0 THEN [returned |-> None, table |-> table]
    ELSE IF ~Storable(frame) THEN [returned |-> AttributeError, table |-> table]
    ELSE LET inserted == Append(table, NewRow(item, frame, group, value))
         IN  [returned |-> output_image(SelectLike(inserted, item)), table |-> inserted]

\* item_add(item, frame)
item_add(table, item, frame) ==
    IF item = None THEN [returned |-> None, table |-> table]
    ELSE LET item_list == SelectLike(table, item)
         IN  IF Len(item_list) = 0 THEN [returned |-> None, table |-> table]
             ELSE IF ~Storable(frame) THEN [returned |-> AttributeError, table |-> table]
             ELSE LET inserted == Append(table, AddedRow(item_list[1], frame))
                  IN  [returned |-> output_image(SelectLike(inserted, item)),
                       table |-> inserted]

\* item_remove(item)
item_remove(table, item) ==
    IF item = None THEN [returned |-> None, table |-> table]
    ELSE LET item_list == SelectLike(table, item)
         IN  IF Len(item_list) = 0 THEN [returned |-> None, table |-> table]
             ELSE [returned |-> item_list[1].name,
                   table |-> SelectSeq(table, LAMBDA row : ~Like(row.name, item))]

\* Most rows of the table, and the highest priority the scans raise a row to.
StoreMaxRows == 2
StoreMaxPriority == 5

\* What the curator types: names, the same in another case, and patterns.
StoreNames == {[chars |-> c] : c \in {<<"g">>, <<"G">>, <<"g", "e">>, <<"%">>}}
StoreGroups == {"Other", "Jewels"}
StoreValues == {1, 800}

\* The frame the curator uploads.
StoreFrames == {Solid(Red)}

InitStore ==
    /\ FnIdle /\ CogIdle
    /\ lootDatabase = <<>>
    /\ scan_arg = NoValue /\ scan_pc = "idle" /\ scan_ret = NoValue
    /\ locals = NoValue
    /\ status = <<>> /\ debug_folder = <<>>
    /\ queries = 0 /\ attempts = <<>> /\ verdicts = <<>>

\* A curator function or a scan has acted on the table.
Called(call, outcome) ==
    /\ fn_arg' = call
    /\ fn_ret' = outcome.returned
    /\ lootDatabase' = outcome.table
    /\ UNCHANGED <<fn_pc, cog_vars, scan_arg, scan_pc, scan_ret, locals, status, debug_folder,
                   queries, attempts, verdicts>>

ItemNew ==
    /\ Len(lootDatabase) < StoreMaxRows
    /\ \E item \in StoreNames \cup {None}, frame \in StoreFrames, group \in StoreGroups,
          value \in StoreValues :
            Called([op |-> "item_new", item |-> item, frame |-> frame, group |-> group,
                    value |-> value],
                   item_new(lootDatabase, item, frame, group, value))

ItemAdd ==
    /\ Len(lootDatabase) < StoreMaxRows
    /\ \E item \in StoreNames \cup {None}, frame \in StoreFrames :
            Called([op |-> "item_add", item |-> item, frame |-> frame],
                   item_add(lootDatabase, item, frame))

ItemRemove ==
    \E item \in StoreNames \cup {None} :
        Called([op |-> "item_remove", item |-> item], item_remove(lootDatabase, item))

\* A scan records a slot it resolved to an item it read from the table at
\* some earlier time, under that item's name and group.
ScanUpdates ==
    /\ \A k \in 1..Len(lootDatabase) : lootDatabase[k].priority + 5 <= StoreMaxPriority
    /\ \E name \in StoreNames, group \in StoreGroups :
            Called([op |-> "scan", name |-> name, group |-> group],
                   [returned |-> NoValue,
                    table |-> UpdatePriority(lootDatabase, name, group)])

NextStore == ItemNew \/ ItemAdd \/ ItemRemove \/ ScanUpdates

SpecStore == InitStore /\ [][NextStore]_vars

\* All rows of one name have the same group, value and priority.
NameRowsAgree(table) ==
    \A j, k \in 1..Len(table) :
        table[j].name = table[k].name =>
            /\ table[j].group = table[k].group
            /\ table[j].value = table[k].value
            /\ table[j].priority = table[k].priority

\* Some row answers to the name the curator gave.
Found(table, item) ==
    item # None /\ \E k \in 1..Len(table) : Like(table[k].name, item)

\* C30: a call of item_new, item_add or item_remove, or a scan's priority
\* update, on a table whose rows of one name agree in group, value and
\* priority leaves such a table: item_new changes nothing and returns None
\* when a row has the name, item_add changes nothing and returns None when
\* no row answers to it and otherwise appends one row with the name, group,
\* priority and value of a row that was there, item_remove leaves no row of
\* the name, and a scan raises all rows of one name by the same amount.
NameRowsStayAgreeing ==
    [][NameRowsAgree(lootDatabase) =>
        /\ NameRowsAgree(lootDatabase')
        /\ (fn_arg'.op = "item_new"
                /\ \E k \in 1..Len(lootDatabase) : lootDatabase[k].name = fn_arg'.item)
            => lootDatabase' = lootDatabase /\ fn_ret' = None
        /\ (fn_arg'.op = "item_add" /\ ~Found(lootDatabase, fn_arg'.item))
            => lootDatabase' = lootDatabase /\ fn_ret' = None
        /\ (fn_arg'.op = "item_add" /\ lootDatabase' # lootDatabase)
            => /\ Len(lootDatabase') = Len(lootDatabase) + 1
               /\ SubSeq(lootDatabase', 1, Len(lootDatabase)) = lootDatabase
               /\ \E k \in 1..Len(lootDatabase) :
                    LET new == lootDatabase'[Len(lootDatabase')]
                        old == lootDatabase[k]
                    IN  /\ new.name = old.name /\ new.group = old.group
                        /\ new.priority = old.priority /\ new.value = old.value
        /\ fn_arg'.op = "item_remove"
            => \A k \in 1..Len(lootDatabase') : lootDatabase'[k].name # fn_arg'.item
        /\ fn_arg'.op = "scan"
            => /\ Len(lootDatabase') = Len(lootDatabase)
               /\ \A j, k \in 1..Len(lootDatabase) :
                    lootDatabase[j].name = lootDatabase[k].name
                        => lootDatabase'[j].priority - lootDatabase[j].priority
                            = lootDatabase'[k].priority - lootDatabase[k].priority
    ]_vars

\* item_add has just put a second row under a name whose priority the scans
\* had raised.
NameRowsStayAgreeingWitness ==
    /\ fn_arg # NoValue /\ fn_arg.op = "item_add"
    /\ Len(lootDatabase) >= 2
    /\ lootDatabase[Len(lootDatabase)].name = lootDatabase[1].name
    /\ lootDatabase[Len(lootDatabase)].priority > 0

-----------------------------------------------------------------------------
(* The progress reports of loot_scan over a list of N slots *)

\* Largest number of slots of the scanned image.
ProgressMaxSlots == 24

\* The state before the loop: the slots were found, the 0% report was sent
\* and last_percent is 0.  What the body of the loop does with a slot has no
\* part in the reports, so the loop is run on the number of slots alone.
InitProgress ==
    /\ \E len \in 1..ProgressMaxSlots : fn_arg = [len |-> len]
    /\ fn_ret = [i |-> 0, last_percent |-> 0,
                 status |-> <<[text |-> "Scanning items", percent |-> 0]>>]
    /\ fn_pc = "loop"
    /\ CogIdle /\ ScanIdle

\* The end of one iteration of the loop: the report, if it is due.
ProgressStep ==
    /\ fn_pc = "loop"
    /\ fn_ret.i < fn_arg.len
    /\ LET current_percent == CurrentPercent(fn_ret.i, fn_arg.len)
       IN  fn_ret' = [i |-> fn_ret.i + 1,
                      last_percent |-> current_percent,
                      status |-> IF ReportDue(current_percent, fn_ret.last_percent)
                                 THEN Append(fn_ret.status,
                                             [text |-> "Scanning items (i/N)",
                                              i |-> fn_ret.i + 1, N |-> fn_arg.len,
                                              percent |-> current_percent])
                                 ELSE fn_ret.status]
    /\ UNCHANGED <<fn_arg, fn_pc>>
    /\ UNCHANGED <<cog_vars, scan_vars>>

\* After the last slot: the "Complete!" report.
ProgressComplete ==
    /\ fn_pc = "loop"
    /\ fn_ret.i = fn_arg.len
    /\ fn_ret' = [fn_ret EXCEPT !.status = Append(@, [text |-> "Complete!"])]
    /\ fn_pc' = "done"
    /\ UNCHANGED fn_arg
    /\ UNCHANGED <<cog_vars, scan_vars>>

NextProgress == ProgressStep \/ ProgressComplete

SpecProgress == InitProgress /\ [][NextProgress]_vars

\* C17: a scan of 20 or more slots has sent, by the time it is complete, at
\* least one 'Scanning items (i/N)' report between the initial 0% report and
\* 'Complete!', as it must if a report is sent each time the share of slots
\* processed has advanced by 5 percentage points.
IntermediateReportsSent ==
    (fn_pc = "done" /\ fn_arg.len >= 20) =>
        \E k \in 2..(Len(fn_ret.status) - 1) :
            fn_ret.status[k].text = "Scanning items (i/N)"

-----------------------------------------------------------------------------
(* The `loot` command *)

\* Largest number of invocations of the command.
MaxCalls == 3

Users == {"owner", "alice"}
Owners == {"owner"}

\* checks.is_owner_check(ctx)
is_owner_check(author) == author \in Owners

MIN_SIZE == 34

\* ctx.message.attachments: none, or one attachment with its size and, for
\* an image, its height and width (a record without them is an attachment
\* whose height is None).
Attachments ==
    {<<>>,
     <<[size |-> 1000]>>,
     <<[height |-> 400, width |-> 400, size |-> 2097152 + 1]>>,
     <<[height |-> MIN_SIZE - 1, width |-> 400, size |-> 1000]>>,
     <<[height |-> MIN_SIZE, width |-> MIN_SIZE - 1, size |-> 1000]>>,
     <<[height |-> MIN_SIZE, width |-> MIN_SIZE, size |-> 2097152]>>}

\* The checks the command makes before it downloads the picture: the reply
\* it sends and returns after, or "" when it goes on.
Refusal(author, attachments, processing) ==
    IF In(author, processing) /\ ~is_owner_check(author)
    THEN "I'm already scanning an image for you! Wait for me to finish that one."
    ELSE IF Len(attachments) = 0
    THEN "You need to upload a picture of your loot and type the command in the comment."
    ELSE IF "height" \notin DOMAIN attachments[1]
    THEN "That's not an image!"
    ELSE IF attachments[1].size > 2097152
    THEN "That image was too big!"
    ELSE IF attachments[1].height < MIN_SIZE \/ attachments[1].width < MIN_SIZE
    THEN "That image is too small to be a loot image."
    ELSE ""

\* list.remove(x): the list without the first x.
Remove(list, x) ==
    LET first == CHOOSE k \in 1..Len(list) :
                    list[k] = x /\ \A m \in 1..(k - 1) : list[m] # x
    IN  SubSeq(list, 1, first - 1) \o SubSeq(list, first + 1, Len(list))

Init ==
    /\ FnIdle /\ ScanIdle
    /\ processing_users = <<>>
    /\ calls = <<>>

\* A user sends the command: the coroutine runs to its first await, the
\* reply of a refusal or the download of the picture.
Invoke ==
    /\ Len(calls) < MaxCalls
    /\ \E author \in Users, attachments \in Attachments :
          LET reply == Refusal(author, attachments, processing_users)
          IN  calls' = Append(calls, [author |-> author,
                                      pc |-> IF reply = "" THEN "downloading" ELSE "refused",
                                      reply |-> reply])
    /\ UNCHANGED <<fn_vars, scan_vars, processing_users>>

\* The download ends, and the command announces the scan.
Downloaded(c) ==
    /\ calls[c].pc = "downloading"
    /\ calls' = [calls EXCEPT ![c].pc = "announcing",
                              ![c].reply = "I've begun parsing your image"]
    /\ UNCHANGED <<fn_vars, scan_vars, processing_users>>

\* The download raises aiohttp.ClientError.
DownloadFails(c) ==
    /\ calls[c].pc = "downloading"
    /\ calls' = [calls EXCEPT ![c].pc = "failed",
                              ![c].reply = "I failed to load your image. Please try again."]
    /\ UNCHANGED <<fn_vars, scan_vars, processing_users>>

\* The announcements are sent: the author is added to processing_users and
\* loot_scan starts.
StartScan(c) ==
    /\ calls[c].pc = "announcing"
    /\ processing_users' = Append(processing_users, calls[c].author)
    /\ calls' = [calls EXCEPT ![c].pc = "scanning", ![c].reply = "Status: Reading"]
    /\ UNCHANGED <<fn_vars, scan_vars>>

\* loot_scan returns its tally, empty or not: the finally clause removes the
\* author, and the command reports.
ScanReturns(c) ==
    /\ calls[c].pc = "scanning"
    /\ processing_users' = Remove(processing_users, calls[c].author)
    /\ \E empty \in BOOLEAN :
          calls' = [calls EXCEPT ![c].pc = "reported",
                                 ![c].reply = IF empty
                                              THEN "I couldn't find any loot in that image."
                                              ELSE "I've finished parsing your image"]
    /\ UNCHANGED <<fn_vars, scan_vars>>

\* loot_scan raises LootScanException: the except clause sends its message,
\* and the finally clause runs after that.
ScanRaisesLootScanException(c) ==
    /\ calls[c].pc = "scanning"
    /\ calls' = [calls EXCEPT ![c].pc = "sending_error", ![c].reply = "LootScanException"]
    /\ UNCHANGED <<fn_vars, scan_vars, processing_users>>

ErrorSent(c) ==
    /\ calls[c].pc = "sending_error"
    /\ processing_users' = Remove(processing_users, calls[c].author)
    /\ calls' = [calls EXCEPT ![c].pc = "reported"]
    /\ UNCHANGED <<fn_vars, scan_vars>>

\* loot_scan raises anything else and the exception leaves the command,
\* first without a finally clause, then as the code has it.
ScanRaisesWithoutFinally(c) ==
    /\ calls[c].pc = "scanning"
    /\ calls' = [calls EXCEPT ![c].pc = "raised", ![c].reply = ""]
    /\ UNCHANGED <<fn_vars, scan_vars, processing_users>>

\* loot_scan raises anything else: the finally clause removes the author
\* and the exception leaves the command.
ScanRaises(c) ==
    /\ calls[c].pc = "scanning"
    /\ processing_users' = Remove(processing_users, calls[c].author)
    /\ calls' = [calls EXCEPT ![c].pc = "raised", ![c].reply = ""]
    /\ UNCHANGED <<fn_vars, scan_vars>>

Next ==
    \/ Invoke
    \/ \E c \in 1..Len(calls) : Downloaded(c)
    \/ \E c \in 1..Len(calls) : DownloadFails(c)
    \/ \E c \in 1..Len(calls) : StartScan(c)
    \/ \E c \in 1..Len(calls) : ScanReturns(c)
    \/ \E c \in 1..Len(calls) : ScanRaisesLootScanException(c)
    \/ \E c \in 1..Len(calls) : ErrorSent(c)
    \/ \E c \in 1..Len(calls) : ScanRaises(c)

Spec == Init /\ [][Next]_vars

\* The invocations a user has inside loot_scan.
Scanning(author) ==
    {c \in 1..Len(calls) : calls[c].author = author /\ calls[c].pc = "scanning"}

\* C1: no user who is not an owner ever has two loot scans in flight.
OneScanPerUser ==
    \A author \in Users \ Owners : Cardinality(Scanning(author)) <= 1

\* The invocations of a user that have entered the try block and not yet
\* left it through its finally clause.
InFlight(author) ==
    {c \in 1..Len(calls) :
        calls[c].author = author /\ calls[c].pc \in {"scanning", "sending_error"}}

\* The number of times a user is in processing_users.
Held(author) == Cardinality({k \in 1..Len(processing_users) : processing_users[k] = author})

\* C28: processing_users holds a user once for each scan of theirs that has
\* started and not yet ended; a refused submission and a failed download
\* add nothing, and a scan that ends, by its report, by LootScanException or
\* by any other exception, takes its entry away, so no user is held without
\* a scan in flight.
HeldOncePerScanInFlight ==
    \A author \in Users : Held(author) = Cardinality(InFlight(author))

\* The owner has two scans in flight while a third invocation has ended
\* with an exception other than LootScanException.
HeldOncePerScanInFlightWitness ==
    /\ \E author \in Users : Held(author) = 2
    /\ \E c \in 1..Len(calls) : calls[c].pc = "raised"

=============================================================================
